---- MODULE Spec2Model ----
(***************************************************************************)
(* A model of the dependency resolution and installation engine of clay:  *)
(* the resolver's worklist, the sequential installer, the parallel         *)
(* dependency pass with its spawned tasks, the lock file and project       *)
(* manifest, the project tarball cache, and the content store.             *)
(***************************************************************************)
EXTENDS Integers, Sequences, FiniteSets, TLC

(***************************************************************************)
(* Bounds of the model and constants of the program.                       *)
(***************************************************************************)
\* number of top-level commands (install, uninstall, ...) in one behaviour
MaxOps == 2
\* number of injected faults (failed download, corrupted bytes, failed tar)
MaxFaults == 1
\* length of the resolver's work stack
MaxWork == 4

\* Semaphore::new(8) in PackageManager::with_toml_lock
DownloadPermits == 8
\* Semaphore::new(12) in PackageResolver::resolve_multiple_packages
ResolvePermits == 12

Pkgs == {"a", "b", "c"}

\* dependency graphs of the registries the behaviours are run against
RegistryNames == {"chain", "cycle", "shared", "fan", "loop"}

\* the command lines `clay install [--dev] <names>` the behaviours issue
InstallRequests ==
  {<<{p}, is_dev>> : p \in Pkgs, is_dev \in BOOLEAN} \cup {<<{"a", "b"}, FALSE>>}

RangeSpec == "^1.0.0"
TheVersion == "1.0.0"

EmptyMap == [x \in {} |-> ""]

Range(f) == {f[x] : x \in DOMAIN f}

\* all orders in which a HashMap with key set S can be iterated
Perms(S) ==
  {s \in [1..Cardinality(S) -> S] : \A i, j \in 1..Cardinality(S) : s[i] = s[j] => i = j}

(***************************************************************************)
(* The registry: PackageInfo, NpmRegistryResponse (package_info.rs).       *)
(***************************************************************************)
\* the `dependencies` map the registry declares for a package
RegistryDependencies(g, name) ==
  CASE g = "chain" /\ name = "a" -> ("b" :> RangeSpec)
    [] g = "chain" /\ name = "b" -> ("c" :> RangeSpec)
    [] g = "cycle" /\ name = "a" -> ("c" :> RangeSpec)
    [] g = "cycle" /\ name = "c" -> ("a" :> RangeSpec) @@ ("b" :> RangeSpec)
    [] g = "shared" /\ name = "a" -> ("c" :> RangeSpec)
    [] g = "shared" /\ name = "b" -> ("c" :> RangeSpec)
    [] g = "fan" /\ name = "a" -> ("b" :> RangeSpec) @@ ("c" :> RangeSpec)
    [] g = "loop" /\ name = "a" -> ("b" :> RangeSpec)
    [] g = "loop" /\ name = "b" -> ("a" :> RangeSpec)
    [] g = "tail" /\ name = "a" -> ("b" :> RangeSpec)
    [] g = "tail" /\ name = "b" -> ("a" :> RangeSpec)
    [] g = "tail" /\ name = "c" -> ("a" :> RangeSpec)
    [] OTHER -> EmptyMap

Shasum(name) == "sha:" \o name
Tarball(name) == "https://registry/" \o name

\* Option<HashMap<String,String>>: None when the registry document has no such field
None == [some |-> FALSE, map |-> EmptyMap]
Some(m) == [some |-> TRUE, map |-> m]

PackageInfo(g, name, version) ==
  [name |-> name, version |-> version,
   dependencies |-> IF RegistryDependencies(g, name) = EmptyMap THEN None
                    ELSE Some(RegistryDependencies(g, name)),
   tarball |-> Tarball(name), shasum |-> Shasum(name)]

NpmRegistryResponse(g, name) ==
  [versions |-> (TheVersion :> PackageInfo(g, name, TheVersion)),
   dist_tags |-> ("latest" :> TheVersion)]

\* Option<&PackageInfo> as a set with at most one element
get_latest_version(resp) ==
  IF "latest" \in DOMAIN resp.dist_tags /\ resp.dist_tags["latest"] \in DOMAIN resp.versions
  THEN {resp.versions[resp.dist_tags["latest"]]} ELSE {}

get_version(resp, version) ==
  IF version = "latest" THEN get_latest_version(resp)
  ELSE IF version \in DOMAIN resp.versions THEN {resp.versions[version]} ELSE {}

\* the characters of the version specs of the model
Spelling(version) ==
  CASE version = "latest" -> <<"l", "a", "t", "e", "s", "t">>
    [] version = "^1.0.0" -> <<"^", "1", ".", "0", ".", "0">>
    [] version = "~1.0.0" -> <<"~", "1", ".", "0", ".", "0">>
    [] version = ">=1.0.0" -> <<">", "=", "1", ".", "0", ".", "0">>
    [] version = "<2.0.0" -> <<"<", "2", ".", "0", ".", "0">>
    [] version = "=1.0.0" -> <<"=", "1", ".", "0", ".", "0">>
    [] version = "*" -> <<"*">>
    [] version = "1.x" -> <<"1", ".", "x">>
    [] version = "1.0" -> <<"1", ".", "0">>
    [] version = "1.0.0" -> <<"1", ".", "0", ".", "0">>
    [] version = "2.0.0" -> <<"2", ".", "0", ".", "0">>
    [] version = "10.2.33" -> <<"1", "0", ".", "2", ".", "3", "3">>
    [] version = "1.0.0-beta" -> <<"1", ".", "0", ".", "0", "-", "b", "e", "t", "a">>
    [] version = "1.0.0-rc.1" -> <<"1", ".", "0", ".", "0", "-", "r", "c", ".", "1">>

is_ascii_digit == {"0", "1", "2", "3", "4", "5", "6", "7", "8", "9"}

starts_with(s, c) == s # <<>> /\ s[1] = c

\* str::split: the pieces of s between the occurrences of sep
RECURSIVE split(_, _)
split(s, sep) ==
  IF \A i \in DOMAIN s : s[i] # sep THEN <<s>>
  ELSE LET i == CHOOSE i \in DOMAIN s : s[i] = sep /\ \A j \in 1..(i - 1) : s[j] # sep
       IN <<SubSeq(s, 1, i - 1)>> \o split(SubSeq(s, i + 1, Len(s)), sep)

\* faulty variant: no spec is an exact version
no_exact_version(version) == FALSE

is_exact_version(version) ==
  LET s == Spelling(version)
  IN IF \/ starts_with(s, "^") \/ starts_with(s, "~") \/ starts_with(s, ">")
        \/ starts_with(s, "<") \/ starts_with(s, "=") \/ version = "*"
     THEN FALSE
     ELSE LET parts == split(s, ".")
          IN IF Len(parts) >= 3
             THEN \A i \in 1..3 :
                    LET part == split(parts[i], "-")[1]
                    IN \A j \in DOMAIN part : part[j] \in is_ascii_digit
             ELSE FALSE

(***************************************************************************)
(* LockFile (package_info.rs).                                             *)
(***************************************************************************)
LockFile_new == EmptyMap

\* faulty variant: the requester is pushed without the contains test
add_package_push(lf, name, version, resolved, integrity, dependencies, required_by) ==
  LET old == IF name \in DOMAIN lf THEN lf[name]
             ELSE [version |-> version, resolved |-> resolved, integrity |-> integrity,
                   dependencies |-> dependencies, required_by |-> <<>>]
  IN [p \in DOMAIN lf \cup {name} |->
        IF p = name THEN [old EXCEPT !.required_by = Append(@, required_by)] ELSE lf[p]]

add_package(lf, name, version, resolved, integrity, dependencies, required_by) ==
  LET old == IF name \in DOMAIN lf THEN lf[name]
             ELSE [version |-> version, resolved |-> resolved, integrity |-> integrity,
                   dependencies |-> dependencies, required_by |-> <<>>]
      new == IF required_by \in Range(old.required_by) THEN old
             ELSE [old EXCEPT !.required_by = Append(@, required_by)]
  IN [p \in DOMAIN lf \cup {name} |-> IF p = name THEN new ELSE lf[p]]

Retain(s, keep(_)) == SelectSeq(s, keep)

\* faulty variant: the entry is kept when nothing requires it any more
remove_requester_only(lf, name, required_by) ==
  IF name \notin DOMAIN lf THEN lf
  ELSE LET IsOther(dep) == dep # required_by
       IN [lf EXCEPT ![name].required_by = SelectSeq(@, IsOther)]

\* the lock file after remove_package
remove_package(lf, name, required_by) ==
  IF name \notin DOMAIN lf THEN lf
  ELSE LET IsOther(dep) == dep # required_by
           rest == SelectSeq(lf[name].required_by, IsOther)
       IN IF rest = <<>> THEN [p \in DOMAIN lf \ {name} |-> lf[p]]
          ELSE [lf EXCEPT ![name].required_by = rest]

\* the boolean remove_package returns
remove_package_result(lf, name, required_by) ==
  /\ name \in DOMAIN lf
  /\ \A i \in 1..Len(lf[name].required_by) : lf[name].required_by[i] = required_by

\* faulty variant: every package can be removed
can_remove_anything(lf, name, required_by) == <<TRUE, <<>>>>

\* faulty variant: the requester is not filtered out
can_remove_unfiltered(lf, name, required_by) ==
  IF name \in DOMAIN lf THEN <<lf[name].required_by = <<>>, lf[name].required_by>>
  ELSE <<TRUE, <<>>>>

can_remove_package(lf, name, required_by) ==
  IF name \in DOMAIN lf
  THEN LET IsOther(dep) == dep # required_by
           remaining_deps == SelectSeq(lf[name].required_by, IsOther)
       IN <<remaining_deps = <<>>, remaining_deps>>
  ELSE <<TRUE, <<>>>>

(***************************************************************************)
(* State.                                                                  *)
(***************************************************************************)
VARIABLES
  use_toml_lock,      \* PackageManager.use_toml_lock
  reg,                \* the registry the client talks to
  node_modules,       \* name -> "absent" | "empty" | "good" | "bad" (whose bytes were extracted)
  cache,              \* the user's tarball cache, shared by projects: name -> "none" | "good" | "bad"
  temp,               \* temp/<name>/<name>-<version>.tgz: "none" | "good" | "bad"
  lock_file,          \* path -> [enc |-> "none"|"toml"|"json", packages |-> LockFile.packages]
  package_json,       \* [exists, dependencies, dev_dependencies]
  stack,              \* call stack of the main task
  result,             \* what the last command returned: "none" | "ok" | the message of its Err
  tasks,              \* the tasks tokio::spawn'ed by install_dependencies_parallel
  file_mutex,         \* "free" or the name of the task holding it
  permits,            \* available permits of PackageManager.semaphore
  work_stack, resolved_packages, dependency_graph, resolved_cache,   \* resolver
  faults, ops,        \* fault and command budgets
  opInfo,             \* the running (or last) command, its arguments, whether all before it returned Ok
  netUsed,            \* a registry request was made by the current command
  added,              \* (package, requester) pairs added by finished lock updates of the command
  override,           \* installed packages whose digest mismatch the operator accepted
  index,              \* ContentStore.index of each store instance: a set of content hashes
  package_index,      \* ContentStore.package_index of each instance: package key -> content hash
  content_files,      \* the content files on disk, by hash
  index_file,         \* index/content.json on disk
  packages_file,      \* index/packages.json on disk
  storeOps, storeOp,  \* number of store operations, and the last one
  link_dirs,          \* link_package's directories on disk: the target, and <target>.temp
  dep_tasks,          \* dependency tasks of one parallel pass: how many wait, hold a permit, ended
  dep_permits,        \* available permits of PackageManager.semaphore in that pass
  root_futures,       \* root resolution futures: how many wait, hold a permit, ended
  root_permits,       \* available permits of the resolver's semaphore
  selection,          \* the last version selection of the resolver: its entry, the response, the outcome
  lockfile,           \* a LockFile value in memory
  lockcall,           \* the last call on it: the method, its arguments, the value before, the return value
  merge,              \* one call of resolve_multiple_packages: the caches and the root futures
  counted,            \* the last call of count_total_packages: the registry, the roots, the result
  single,             \* the last call of install_single_package on a node: its arguments and effects
  pass                \* one call of install_dependencies_parallel with many dependencies: the main
                      \* task's position, how many tasks wait, hold a permit, write, ended

instVars == <<use_toml_lock, reg, node_modules, cache, temp, lock_file, package_json, stack,
              result, tasks, file_mutex, permits, work_stack, resolved_packages,
              dependency_graph, resolved_cache, faults, ops, opInfo, netUsed, added, override>>

storeVars == <<index, package_index, content_files, index_file, packages_file, storeOps, storeOp,
               link_dirs>>

semVars == <<dep_tasks, dep_permits, root_futures, root_permits>>

libVars == <<selection, lockfile, lockcall, merge, counted, single, pass>>

vars == <<instVars, storeVars, semVars, libVars>>

(***************************************************************************)
(* Lock file and manifest I/O of PackageManager.                           *)
(***************************************************************************)
Encoding(toml) == IF toml THEN "toml" ELSE "json"

\* with_toml_lock: the path of the lock file follows the configured encoding
lock_file_path(toml) == IF toml THEN "clay-lock.toml" ELSE "clay-lock.json"

LockPaths == {lock_file_path(t) : t \in BOOLEAN}

NoFile == [enc |-> "none", packages |-> LockFile_new]

\* load_lock_file: a missing file, or one the configured parser rejects, is LockFile::new()
load_lock_file(files, toml) ==
  LET file == files[lock_file_path(toml)]
  IN IF file.enc = Encoding(toml) THEN file.packages ELSE LockFile_new

save_lock_file(files, lf, toml) ==
  [files EXCEPT ![lock_file_path(toml)] = [enc |-> Encoding(toml), packages |-> lf]]

\* the read inside a spawned task: serde_json::from_str(..).unwrap_or_else(LockFile::new)
task_read_lock(files, toml) ==
  LET file == files[lock_file_path(toml)]
  IN IF file.enc = "json" THEN file.packages ELSE LockFile_new

\* the write inside a spawned task: serde_json::to_string_pretty to the configured path
task_write_lock(files, lf, toml) ==
  [files EXCEPT ![lock_file_path(toml)] = [enc |-> "json", packages |-> lf]]

PackageJson_new == [exists |-> TRUE, dependencies |-> EmptyMap, dev_dependencies |-> EmptyMap]

MapPut(m, k, v) == [x \in DOMAIN m \cup {k} |-> IF x = k THEN v ELSE m[x]]
MapDel(m, k) == [x \in DOMAIN m \ {k} |-> m[x]]

update_package_json(pj, package_name, version, is_dev) ==
  LET cur == IF pj.exists THEN pj ELSE PackageJson_new
  IN IF is_dev THEN [cur EXCEPT !.dev_dependencies = MapPut(@, package_name, version)]
     ELSE [cur EXCEPT !.dependencies = MapPut(@, package_name, version)]

remove_from_package_json(pj, package_name) ==
  IF ~pj.exists THEN pj ELSE [pj EXCEPT !.dependencies = MapDel(@, package_name)]

\* faulty variant: no directory is ever seen
DirNeverExists(name) == FALSE

DirExists(name) == name \in Pkgs /\ node_modules[name] # "absent"

\* faulty variant: no requested package is found installed
check_nothing_installed(package_specs) ==
  [already_installed |-> {}, to_install |-> package_specs]

check_packages_already_installed(package_specs) ==
  [already_installed |-> {n \in package_specs : DirExists(n)},
   to_install |-> {n \in package_specs : ~DirExists(n)}]

(***************************************************************************)
(* The resolver's tree (package_manager.rs, PackageResolver).              *)
(***************************************************************************)
Key(name, version_spec) == name \o "@" \o version_spec

CircularStub ==
  [name |-> "circular", version |-> "0.0.0",
   info |-> [name |-> "circular", version |-> "0.0.0", dependencies |-> None,
             tarball |-> "", shasum |-> ""],
   dependencies |-> <<>>, is_dev |-> FALSE]

RECURSIVE build_tree_recursive(_, _, _, _), build_children(_, _, _, _, _)
\* [ok, pkg, visited]: the Result and the visited set the call leaves behind
build_tree_recursive(package_key, rp, dg, visited) ==
  IF package_key \in visited
  THEN [ok |-> TRUE, pkg |-> CircularStub, visited |-> visited]
  ELSE LET v1 == visited \cup {package_key}
       IN IF package_key \notin DOMAIN rp
          THEN [ok |-> FALSE, pkg |-> CircularStub, visited |-> v1]
          ELSE LET ch == IF package_key \in DOMAIN dg
                         THEN build_children(dg[package_key], 1, rp, dg, v1)
                         ELSE [deps |-> rp[package_key].dependencies, visited |-> v1]
               IN [ok |-> TRUE,
                   pkg |-> [rp[package_key] EXCEPT !.dependencies = ch.deps],
                   visited |-> ch.visited \ {package_key}]

build_children(dep_keys, i, rp, dg, visited) ==
  IF i > Len(dep_keys) THEN [deps |-> <<>>, visited |-> visited]
  ELSE LET r == build_tree_recursive(dep_keys[i], rp, dg, visited)
           rest == build_children(dep_keys, i + 1, rp, dg, r.visited)
       IN [deps |-> IF r.ok THEN <<r.pkg>> \o rest.deps ELSE rest.deps,
           visited |-> rest.visited]

\* faulty variant: the root key is in the visited set before the walk starts
build_tree_visited_root(package_key, rp, dg) ==
  build_tree_recursive(package_key, rp, dg, {package_key})

build_dependency_tree(package_key, rp, dg) == build_tree_recursive(package_key, rp, dg, {})

\* the version the worklist selects for a spec (lines 111-126)
select_version(resp, version_spec) ==
  IF version_spec = "latest" THEN get_latest_version(resp)
  ELSE IF is_exact_version(version_spec) THEN get_version(resp, version_spec)
  ELSE get_latest_version(resp)

\* line 119: the error of a selection that found nothing
VersionNotFound(version_spec, name) ==
  "Version '" \o version_spec \o "' not found for package '" \o name \o "'"

\* the version specs and the registry responses a worklist entry is selected from
VersionSpecs ==
  {"latest", "^1.0.0", "~1.0.0", ">=1.0.0", "<2.0.0", "=1.0.0", "*", "1.x", "1.0",
   "1.0.0", "2.0.0", "10.2.33", "1.0.0-beta", "1.0.0-rc.1"}

PublishedVersions == {"1.0.0", "2.0.0", "1.0.0-beta"}

Responses ==
  {[versions |-> [v \in V |-> PackageInfo("chain", "a", v)], dist_tags |-> t] :
     V \in SUBSET PublishedVersions,
     t \in {EmptyMap} \cup {("latest" :> v) : v \in {"1.0.0", "2.0.0"}}}

NoSelection == [name |-> "", version_spec |-> "", response |-> {}, package_info |-> {}, error |-> ""]

NoCall == [fn |-> "none"]

\* a PackageResolver on which resolve_multiple_packages has not been called
NoMerge ==
  [phase |-> "idle", before |-> {}, resolved_cache |-> {}, shared |-> {},
   permits |-> ResolvePermits, futures |-> EmptyMap]

NoCount == [registry |-> "", roots |-> <<>>, order |-> EmptyMap, resolved |-> <<>>, total |-> 0]

NoSingle == [fn |-> "none"]

\* install_dependencies_parallel has not been called
NoPass ==
  [pc |-> "none", todo |-> 0, waiting |-> 0, holding |-> 0, writing |-> 0, ended |-> 0,
   spawned |-> 0, permits |-> DownloadPermits, file_mutex |-> "free", nested |-> 0,
   frames |-> <<>>]

InitLibrary ==
  /\ selection = NoSelection
  /\ lockfile = LockFile_new
  /\ lockcall = NoCall
  /\ merge = NoMerge
  /\ counted = NoCount
  /\ single = NoSingle
  /\ pass = NoPass

\* lines 111-126: the worklist entry (name, version_spec) is given its version from the
\* response in resolved_cache, or the resolution fails
ResolveSelect(name, version_spec, registry_response) ==
  /\ LET package_info == select_version(registry_response, version_spec)
     IN selection' = [name |-> name, version_spec |-> version_spec,
                      response |-> registry_response, package_info |-> package_info,
                      error |-> IF package_info = {} THEN VersionNotFound(version_spec, name)
                                ELSE ""]
  /\ UNCHANGED <<instVars, storeVars, semVars, lockfile, lockcall, merge, counted, single, pass>>

\* the packages, versions and requesters of the calls on the LockFile value
LockInputs ==
  [name : {"a", "b"}, version : {"1.0.0", "2.0.0"}, required_by : {"root", "a", "b"}]

\* lf.add_package(name, version, resolved, integrity, dependencies, required_by), as
\* update_lock_file calls it with the fields of the version's PackageInfo
CallAddPackage(in) ==
  LET info == PackageInfo(IF in.version = "1.0.0" THEN "chain" ELSE "fan", in.name, in.version)
  IN /\ lockfile' = add_package(lockfile, in.name, in.version, info.tarball,
                               info.shasum \o "-" \o in.version, info.dependencies,
                               in.required_by)
     /\ lockcall' = [fn |-> "add_package", name |-> in.name, version |-> in.version,
                     resolved |-> info.tarball, integrity |-> info.shasum \o "-" \o in.version,
                     dependencies |-> info.dependencies, required_by |-> in.required_by,
                     before |-> lockfile, ret |-> <<>>]
     /\ UNCHANGED <<instVars, storeVars, semVars, selection, merge, counted, single, pass>>

\* lf.remove_package(name, required_by)
CallRemovePackage(name, required_by) ==
  /\ lockfile' = remove_package(lockfile, name, required_by)
  /\ lockcall' = [fn |-> "remove_package", name |-> name, required_by |-> required_by,
                  before |-> lockfile, ret |-> remove_package_result(lockfile, name, required_by)]
  /\ UNCHANGED <<instVars, storeVars, semVars, selection, merge, counted, single, pass>>

\* lf.can_remove_package(name, required_by): &self
CallCanRemovePackage(name, required_by) ==
  /\ lockcall' = [fn |-> "can_remove_package", name |-> name, required_by |-> required_by,
                  before |-> lockfile, ret |-> can_remove_package(lockfile, name, required_by)]
  /\ UNCHANGED <<instVars, storeVars, semVars, selection, lockfile, merge, counted, single, pass>>

NextLock ==
  \E in \in LockInputs :
    \/ CallAddPackage(in)
    \/ CallRemovePackage(in.name, in.required_by)
    \/ CallCanRemovePackage(in.name, in.required_by)

NextSelect ==
  \E version_spec \in VersionSpecs, registry_response \in Responses :
    ResolveSelect("a", version_spec, registry_response)

(***************************************************************************)
(* Frames of the main task's call stack and the spawned tasks.             *)
(***************************************************************************)
Top == stack[Len(stack)]
Rest == SubSeq(stack, 1, Len(stack) - 1)
Running(fn, pc) == stack # <<>> /\ Top.fn = fn /\ Top.pc = pc

NoTask ==
  [pc |-> "none", parent |-> "", spec |-> "", info |-> CircularStub.info, loaded |-> EmptyMap,
   error |-> ""]

ImpFrame(dev, to_resolve) ==
  [fn |-> "imp", pc |-> "resolve", dev |-> dev, to_resolve |-> to_resolve,
   root |-> "", resolved |-> <<>>, failed_packages |-> {}, idx |-> 1]

IrpFrame(pkg, upj) == [fn |-> "irp", pc |-> "check", pkg |-> pkg, upj |-> upj, idx |-> 1]

IspFrame(info, upj, dev) == [fn |-> "isp", pc |-> "download", info |-> info, upj |-> upj, dev |-> dev]

UlfFrame(name, version, resolved, integrity, dependencies, required_by) ==
  [fn |-> "ulf", pc |-> "load", name |-> name, version |-> version, resolved |-> resolved,
   integrity |-> integrity, dependencies |-> dependencies, required_by |-> required_by,
   loaded |-> LockFile_new]

IdpFrame(dependencies, parent_name) ==
  [fn |-> "idp", pc |-> "loop", todo |-> dependencies, parent |-> parent_name,
   awaiting |-> <<>>, nested |-> <<>>]

\* a call returning Ok: its frame is popped; the command is over when none is left
ReturnOk(stk) ==
  /\ stack' = stk
  /\ result' = IF stk = <<>> THEN "ok" ELSE result

\* the messages of the anyhow errors
FetchFailed == "Failed to fetch package info: HTTP"
DownloadFailed == "Failed to download package: HTTP"
IntegrityAborted(name) ==
  "Package integrity verification failed for " \o name \o ". Installation aborted by user."
IntegrityFailed(name) == "Package integrity verification failed for " \o name
ExtractFailed == "Failed to extract tarball"
ExtractFailedFor(name) == "Failed to extract tarball for " \o name

IsErr(r) == r \notin {"none", "ok"}

\* an Err is propagated by `?` through every caller: the command returns Err
ReturnErr(e) ==
  /\ stack' = <<>>
  /\ result' = e

resolverVars == <<work_stack, resolved_packages, dependency_graph, resolved_cache>>
diskVars == <<node_modules, cache, temp, lock_file, package_json>>
taskVars == <<tasks, file_mutex, permits>>
opVars == <<ops, opInfo>>
\* what the installer's steps never change: the configuration, the registry, the content
\* store, and the semaphores of the pass of many tasks
config == <<use_toml_lock, reg, storeVars, semVars, libVars>>

\* an empty project; the tarballs of `cached` are in the user's cache
InstallerStarts(toml, g, cached) ==
  /\ use_toml_lock = toml
  /\ reg = g
  /\ node_modules = [p \in Pkgs |-> "absent"]
  /\ cache = [p \in Pkgs |-> IF p \in cached THEN "good" ELSE "none"]
  /\ temp = [p \in Pkgs |-> "none"]
  /\ lock_file = [path \in LockPaths |-> NoFile]
  /\ package_json = [exists |-> FALSE, dependencies |-> EmptyMap, dev_dependencies |-> EmptyMap]
  /\ stack = <<>>
  /\ result = "none"
  /\ tasks = [p \in Pkgs |-> NoTask]
  /\ file_mutex = "free"
  /\ permits = DownloadPermits
  /\ work_stack = <<>>
  /\ resolved_packages = EmptyMap
  /\ dependency_graph = EmptyMap
  /\ resolved_cache = {}
  /\ faults = MaxFaults
  /\ ops = 0
  /\ opInfo = [kind |-> "none", roots |-> {}, dev |-> FALSE, prior_ok |-> TRUE]
  /\ netUsed = FALSE
  /\ added = {}
  /\ override = {}

InitInstaller ==
  \E toml \in BOOLEAN, g \in RegistryNames, cached \in {{}, Pkgs} : InstallerStarts(toml, g, cached)

\* a command is a process of its own: a fresh PackageManager, no task left from the last one
StartOp(kind, roots, dev) ==
  /\ stack = <<>>
  /\ ops < MaxOps
  /\ ops' = ops + 1
  /\ opInfo' = [kind |-> kind, roots |-> roots, dev |-> dev,
                prior_ok |-> opInfo.prior_ok /\ ~IsErr(result)]
  /\ tasks' = [p \in Pkgs |-> NoTask]
  /\ file_mutex' = "free"
  /\ permits' = DownloadPermits
  /\ netUsed' = FALSE
  /\ added' = {}
  /\ work_stack' = <<>>
  /\ resolved_packages' = EmptyMap
  /\ dependency_graph' = EmptyMap
  /\ resolved_cache' = {}

(***************************************************************************)
(* install_multiple_packages (lines 582-735) and the resolver's worklist.  *)
(***************************************************************************)
\* lines 588-624: the early exit, or the start of the resolution
install_multiple_packages(packages, is_dev) ==
  /\ StartOp("install", packages, is_dev)
  /\ LET chk == check_packages_already_installed(packages)
     IN IF chk.to_install = {}
        THEN ReturnOk(<<>>)
        ELSE stack' = <<ImpFrame(is_dev, chk.to_install)>> /\ result' = "none"
  /\ UNCHANGED <<config, diskVars, faults, override>>

\* resolve_multiple_packages: one root's future starts its temporary resolver
ResolveBegin(name) ==
  /\ Running("imp", "resolve")
  /\ work_stack = <<>>
  /\ Top.root = ""
  /\ name \in Top.to_resolve
  /\ stack' = Rest \o <<[Top EXCEPT !.root = name, !.to_resolve = @ \ {name}]>>
  /\ work_stack' = <<[name |-> name, spec |-> "latest", is_dev |-> Top.dev]>>
  /\ resolved_packages' = EmptyMap
  /\ dependency_graph' = EmptyMap
  /\ UNCHANGED <<config, diskVars, taskVars, opVars, result, resolved_cache, faults, netUsed,
                 added, override>>

\* faulty variant: no key is ever taken for resolved
never_resolved(rp, package_key) == FALSE

\* lines 80-83: resolved_packages.contains_key(&package_key)
already_resolved(rp, package_key) == package_key \in DOMAIN rp

\* lines 72-83: the popped key is already resolved
ResolveSkip ==
  /\ Running("imp", "resolve")
  /\ work_stack # <<>>
  /\ LET top == work_stack[Len(work_stack)]
     IN already_resolved(resolved_packages, Key(top.name, top.spec))
  /\ work_stack' = SubSeq(work_stack, 1, Len(work_stack) - 1)
  /\ UNCHANGED <<config, diskVars, taskVars, opVars, stack, result, resolved_packages,
                 dependency_graph, resolved_cache, faults, netUsed, added, override>>

\* lines 85-172: fetch the response, select the version, push the dependencies
ResolveVisit ==
  /\ Running("imp", "resolve")
  /\ work_stack # <<>>
  /\ LET top == work_stack[Len(work_stack)]
         package_key == Key(top.name, top.spec)
         sel == select_version(NpmRegistryResponse(reg, top.name), top.spec)
     IN /\ ~already_resolved(resolved_packages, package_key)
        /\ sel # {}
        /\ \E package_info \in sel :
           \E order \in Perms(DOMAIN package_info.dependencies.map) :
             LET deps == package_info.dependencies.map
                 dep_keys == [i \in 1..Len(order) |-> Key(order[i], deps[order[i]])]
                 pushed == [i \in 1..Len(order) |->
                              [name |-> order[i], spec |-> deps[order[i]], is_dev |-> FALSE]]
             IN /\ Len(work_stack) - 1 + Len(pushed) <= MaxWork
                /\ work_stack' = SubSeq(work_stack, 1, Len(work_stack) - 1) \o pushed
                /\ dependency_graph' = MapPut(dependency_graph, package_key, dep_keys)
                /\ resolved_packages' =
                     MapPut(resolved_packages, package_key,
                            [name |-> top.name, version |-> package_info.version,
                             info |-> package_info, dependencies |-> <<>>,
                             is_dev |-> top.is_dev])
        /\ netUsed' = (netUsed \/ top.name \notin resolved_cache)
        /\ resolved_cache' = resolved_cache \cup {top.name}
  /\ UNCHANGED <<config, diskVars, taskVars, opVars, stack, result, faults, added, override>>

\* line 98: get_package_info fails; the root's future returns Err, and lines 364-372 put
\* the root into failed_packages
ResolveFetchFail ==
  /\ Running("imp", "resolve")
  /\ work_stack # <<>>
  /\ faults > 0
  /\ LET top == work_stack[Len(work_stack)]
     IN /\ Key(top.name, top.spec) \notin DOMAIN resolved_packages
        /\ top.name \notin resolved_cache
  /\ faults' = faults - 1
  /\ netUsed' = TRUE
  /\ work_stack' = <<>>
  /\ resolved_packages' = EmptyMap
  /\ dependency_graph' = EmptyMap
  /\ stack' = Rest \o <<[Top EXCEPT !.root = "", !.failed_packages = @ \cup {Top.root}]>>
  /\ UNCHANGED <<config, diskVars, taskVars, opVars, result, resolved_cache, added, override>>

\* lines 184-191 and 344-353: the tree of the root is built and collected
ResolveFinish ==
  /\ Running("imp", "resolve")
  /\ work_stack = <<>>
  /\ Top.root # ""
  /\ LET r == build_dependency_tree(Key(Top.root, "latest"), resolved_packages, dependency_graph)
     IN stack' = Rest \o <<[Top EXCEPT !.root = "",
                                      !.resolved = IF r.ok THEN Append(@, r.pkg) ELSE @]>>
  /\ resolved_packages' = EmptyMap
  /\ dependency_graph' = EmptyMap
  /\ UNCHANGED <<config, diskVars, taskVars, opVars, result, work_stack, resolved_cache, faults,
                 netUsed, added, override>>

\* lines 631-676: nothing resolved, or everything resolved is present: return Ok
IsAbsentRoot(pkg) == ~DirExists(pkg.name)

ImpNothingToInstall ==
  /\ Running("imp", "resolve")
  /\ work_stack = <<>> /\ Top.root = "" /\ Top.to_resolve = {}
  /\ SelectSeq(Top.resolved, IsAbsentRoot) = <<>>
  /\ ReturnOk(Rest)
  /\ UNCHANGED <<config, diskVars, taskVars, opVars, resolverVars, faults, netUsed, added, override>>

\* lines 636-647: to_install is what was resolved and has no directory
ImpToInstall ==
  /\ Running("imp", "resolve")
  /\ work_stack = <<>> /\ Top.root = "" /\ Top.to_resolve = {}
  /\ SelectSeq(Top.resolved, IsAbsentRoot) # <<>>
  /\ stack' = Rest \o <<[Top EXCEPT !.pc = "install",
                                   !.resolved = SelectSeq(@, IsAbsentRoot)]>>
  /\ UNCHANGED <<config, diskVars, taskVars, opVars, resolverVars, result, faults, netUsed, added,
                 override>>

\* lines 699-702: the loop over to_install
ImpInstallNext ==
  /\ Running("imp", "install")
  /\ Top.idx <= Len(Top.resolved)
  /\ stack' = Rest \o <<[Top EXCEPT !.idx = @ + 1], IrpFrame(Top.resolved[Top.idx], TRUE)>>
  /\ UNCHANGED <<config, diskVars, taskVars, opVars, resolverVars, result, faults, netUsed, added,
                 override>>

\* lines 704-734
ImpReturn ==
  /\ Running("imp", "install")
  /\ Top.idx > Len(Top.resolved)
  /\ ReturnOk(Rest)
  /\ UNCHANGED <<config, diskVars, taskVars, opVars, resolverVars, faults, netUsed, added, override>>

(***************************************************************************)
(* install_resolved_package (lines 780-812).                               *)
(***************************************************************************)
\* lines 786-795
IrpCheck ==
  /\ Running("irp", "check")
  /\ IF DirExists(Top.pkg.name)
     THEN ReturnOk(Rest)
     ELSE stack' = Rest \o <<[Top EXCEPT !.pc = "deps"]>> /\ result' = result
  /\ UNCHANGED <<config, diskVars, taskVars, opVars, resolverVars, faults, netUsed, added, override>>

\* lines 797-800: dependencies first
IrpDep ==
  /\ Running("irp", "deps")
  /\ Top.idx <= Len(Top.pkg.dependencies)
  /\ stack' = Rest \o <<[Top EXCEPT !.idx = @ + 1], IrpFrame(Top.pkg.dependencies[Top.idx], FALSE)>>
  /\ UNCHANGED <<config, diskVars, taskVars, opVars, resolverVars, result, faults, netUsed, added,
                 override>>

\* lines 802-811: then the package itself
IrpSelf ==
  /\ Running("irp", "deps")
  /\ Top.idx > Len(Top.pkg.dependencies)
  /\ stack' = Rest \o <<IspFrame(Top.pkg.info, Top.upj, Top.pkg.is_dev)>>
  /\ UNCHANGED <<config, diskVars, taskVars, opVars, resolverVars, result, faults, netUsed, added,
                 override>>

(***************************************************************************)
(* install_single_package (lines 815-898), download_package_tarball        *)
(* (1307-1341), NpmClient::download_package, extract_package.              *)
(***************************************************************************)
\* the SHA-1 of tarball bytes: "good" bytes are the ones the registry published
Sha1(bytes, name) == IF bytes = "good" THEN Shasum(name) ELSE "sha:corrupt"

\* faulty variant: a verification that accepts every digest
verify_nothing(bytes, name, expected_shasum) == TRUE

verify_package_integrity(bytes, name, expected_shasum) == Sha1(bytes, name) = expected_shasum

\* faulty variant: the cache is never consulted
cache_never_used(info) == [ok |-> FALSE, temp |-> temp, cache |-> cache]

\* is_cached and copy_from_cache: the copy comes first, the verification second
copy_from_cache(info) ==
  LET name == info.name
      cached == cache[name] # "none"
      ok == cached /\ verify_package_integrity(cache[name], name, info.shasum)
  IN [ok |-> ok,
      temp |-> IF cached THEN [temp EXCEPT ![name] = cache[name]] ELSE temp,
      cache |-> IF cached /\ ~ok THEN [cache EXCEPT ![name] = "none"] ELSE cache]

IspSkips(info) == info.name = "circular" \/ DirExists(info.name)

\* lines 822-834
IspSkip ==
  /\ Running("isp", "download")
  /\ IspSkips(Top.info)
  /\ ReturnOk(Rest)
  /\ UNCHANGED <<config, diskVars, taskVars, opVars, resolverVars, faults, netUsed, added, override>>

\* download_package_tarball returns the verified copy of the cache entry
IspCacheHit ==
  /\ Running("isp", "download")
  /\ ~IspSkips(Top.info)
  /\ copy_from_cache(Top.info).ok
  /\ temp' = copy_from_cache(Top.info).temp
  /\ stack' = Rest \o <<[Top EXCEPT !.pc = "extract"]>>
  /\ UNCHANGED <<config, node_modules, cache, lock_file, package_json, taskVars, opVars,
                 resolverVars, result, faults, netUsed, added, override>>

\* what the registry sends: the published bytes, or (a fault) other bytes
Bytes == {"good", "bad"}
FaultOf(bytes) == IF bytes = "good" THEN 0 ELSE 1

\* download_package with bytes that pass the verification; save_to_cache
IspDownload(bytes) ==
  /\ Running("isp", "download")
  /\ ~IspSkips(Top.info)
  /\ ~copy_from_cache(Top.info).ok
  /\ faults >= FaultOf(bytes) /\ faults' = faults - FaultOf(bytes)
  /\ verify_package_integrity(bytes, Top.info.name, Top.info.shasum)
  /\ temp' = [temp EXCEPT ![Top.info.name] = bytes]
  /\ cache' = [cache EXCEPT ![Top.info.name] = bytes]
  /\ netUsed' = TRUE
  /\ stack' = Rest \o <<[Top EXCEPT !.pc = "extract"]>>
  /\ UNCHANGED <<config, node_modules, lock_file, package_json, taskVars, opVars, resolverVars,
                 result, added, override>>

\* download_package: the request fails or the status is not a success
IspDownloadHttpFail ==
  /\ Running("isp", "download")
  /\ ~IspSkips(Top.info)
  /\ ~copy_from_cache(Top.info).ok
  /\ faults > 0 /\ faults' = faults - 1
  /\ temp' = copy_from_cache(Top.info).temp
  /\ cache' = copy_from_cache(Top.info).cache
  /\ netUsed' = TRUE
  /\ ReturnErr(DownloadFailed)
  /\ UNCHANGED <<config, node_modules, lock_file, package_json, taskVars, opVars, resolverVars,
                 added, override>>

\* download_package: the digest differs and the operator does not answer yes
IspDownloadCorruptNo(bytes) ==
  /\ Running("isp", "download")
  /\ ~IspSkips(Top.info)
  /\ ~copy_from_cache(Top.info).ok
  /\ faults >= FaultOf(bytes) /\ faults' = faults - FaultOf(bytes)
  /\ ~verify_package_integrity(bytes, Top.info.name, Top.info.shasum)
  /\ temp' = copy_from_cache(Top.info).temp
  /\ cache' = copy_from_cache(Top.info).cache
  /\ netUsed' = TRUE
  /\ ReturnErr(IntegrityAborted(Top.info.name))
  /\ UNCHANGED <<config, node_modules, lock_file, package_json, taskVars, opVars, resolverVars,
                 added, override>>

\* download_package: the digest differs and the operator answers yes; save_to_cache
IspDownloadCorruptYes(bytes) ==
  /\ Running("isp", "download")
  /\ ~IspSkips(Top.info)
  /\ ~copy_from_cache(Top.info).ok
  /\ faults >= FaultOf(bytes) /\ faults' = faults - FaultOf(bytes)
  /\ ~verify_package_integrity(bytes, Top.info.name, Top.info.shasum)
  /\ temp' = [temp EXCEPT ![Top.info.name] = bytes]
  /\ cache' = [cache EXCEPT ![Top.info.name] = bytes]
  /\ override' = override \cup {Top.info.name}
  /\ netUsed' = TRUE
  /\ stack' = Rest \o <<[Top EXCEPT !.pc = "extract"]>>
  /\ UNCHANGED <<config, node_modules, lock_file, package_json, taskVars, opVars, resolverVars,
                 result, added>>

\* the requester install_single_package records (lines 871-876)
isp_parent_name(info, upj) == IF upj THEN "root" ELSE info.name

\* lines 848-886: extract, clean the temp directory, update package.json, call update_lock_file
IspExtract ==
  /\ Running("isp", "extract")
  /\ temp[Top.info.name] # "none"
  /\ node_modules' = [node_modules EXCEPT ![Top.info.name] = temp[Top.info.name]]
  /\ temp' = [temp EXCEPT ![Top.info.name] = "none"]
  /\ package_json' = IF Top.upj
                     THEN update_package_json(package_json, Top.info.name, Top.info.version, Top.dev)
                     ELSE package_json
  /\ stack' = Rest \o <<[Top EXCEPT !.pc = "deps"],
                        UlfFrame(Top.info.name, Top.info.version, Top.info.tarball,
                                 Top.info.shasum, Top.info.dependencies,
                                 isp_parent_name(Top.info, Top.upj))>>
  /\ UNCHANGED <<config, cache, lock_file, taskVars, opVars, resolverVars, result, faults, netUsed,
                 added, override>>

\* extract_package: create_dir_all succeeds, tar fails
IspExtractFail ==
  /\ Running("isp", "extract")
  /\ faults > 0 /\ faults' = faults - 1
  /\ node_modules' = [node_modules EXCEPT ![Top.info.name] = "empty"]
  /\ ReturnErr(ExtractFailed)
  /\ UNCHANGED <<config, cache, temp, lock_file, package_json, taskVars, opVars, resolverVars,
                 netUsed, added, override>>

\* lines 891-897
IspDeps ==
  /\ Running("isp", "deps")
  /\ IF Top.info.dependencies.some
     THEN stack' = Rest \o <<IdpFrame(Top.info.dependencies.map, Top.info.name)>> /\ result' = result
     ELSE ReturnOk(Rest)
  /\ UNCHANGED <<config, diskVars, taskVars, opVars, resolverVars, faults, netUsed, added, override>>

(***************************************************************************)
(* update_lock_file (lines 1434-1454): load_lock_file takes and releases   *)
(* the mutex, then save_lock_file takes and releases it.                   *)
(***************************************************************************)
UlfLoad ==
  /\ Running("ulf", "load")
  /\ file_mutex = "free"
  /\ stack' = Rest \o <<[Top EXCEPT !.pc = "save",
                                   !.loaded = load_lock_file(lock_file, use_toml_lock)]>>
  /\ UNCHANGED <<config, diskVars, taskVars, opVars, resolverVars, result, faults, netUsed, added,
                 override>>

UlfSave ==
  /\ Running("ulf", "save")
  /\ file_mutex = "free"
  /\ lock_file' = save_lock_file(lock_file,
                                 add_package(Top.loaded, Top.name, Top.version, Top.resolved,
                                             Top.integrity, Top.dependencies, Top.required_by),
                                 use_toml_lock)
  /\ added' = added \cup {<<Top.name, Top.required_by>>}
  /\ ReturnOk(Rest)
  /\ UNCHANGED <<config, node_modules, cache, temp, package_json, taskVars, opVars, resolverVars,
                 faults, netUsed, override>>

(***************************************************************************)
(* install_dependencies_parallel (lines 901-1101): the main task.          *)
(***************************************************************************)
\* lines 910-917: the dependency has a directory; only the lock file is updated
IdpPresent(dep_name) ==
  /\ Running("idp", "loop")
  /\ dep_name \in DOMAIN Top.todo
  /\ DirExists(dep_name)
  /\ stack' = Rest \o <<[Top EXCEPT !.todo = MapDel(@, dep_name)],
                        UlfFrame(dep_name, Top.todo[dep_name], "", "", None, Top.parent)>>
  /\ UNCHANGED <<config, diskVars, taskVars, opVars, resolverVars, result, faults, netUsed, added,
                 override>>

\* lines 919-1076: tokio::spawn
IdpSpawn(dep_name) ==
  /\ Running("idp", "loop")
  /\ dep_name \in DOMAIN Top.todo
  /\ ~DirExists(dep_name)
  /\ tasks' = [tasks EXCEPT ![dep_name] =
                 [NoTask EXCEPT !.pc = "wait", !.parent = Top.parent, !.spec = Top.todo[dep_name]]]
  /\ stack' = Rest \o <<[Top EXCEPT !.todo = MapDel(@, dep_name),
                                   !.awaiting = Append(@, dep_name)]>>
  /\ UNCHANGED <<config, diskVars, file_mutex, permits, opVars, resolverVars, result, faults,
                 netUsed, added, override>>

IdpLoopDone ==
  /\ Running("idp", "loop")
  /\ Top.todo = EmptyMap
  /\ stack' = Rest \o <<[Top EXCEPT !.pc = "await"]>>
  /\ UNCHANGED <<config, diskVars, taskVars, opVars, resolverVars, result, faults, netUsed, added,
                 override>>

\* lines 1081-1088: the tasks are awaited in the order they were spawned
IdpJoinOk ==
  /\ Running("idp", "await")
  /\ Top.awaiting # <<>>
  /\ tasks[Head(Top.awaiting)].pc = "ok"
  /\ LET dep_name == Head(Top.awaiting)
         deps == tasks[dep_name].info.dependencies
     IN stack' = Rest \o <<[Top EXCEPT !.awaiting = Tail(@),
                                      !.nested = IF deps.some
                                                 THEN Append(@, [name |-> dep_name, deps |-> deps.map])
                                                 ELSE @]>>
  /\ UNCHANGED <<config, diskVars, taskVars, opVars, resolverVars, result, faults, netUsed, added,
                 override>>

\* line 1089: the first failed task ends the call; the other tasks keep running
IdpJoinErr ==
  /\ Running("idp", "await")
  /\ Top.awaiting # <<>>
  /\ tasks[Head(Top.awaiting)].pc = "err"
  /\ ReturnErr(tasks[Head(Top.awaiting)].error)
  /\ UNCHANGED <<config, diskVars, taskVars, opVars, resolverVars, faults, netUsed, added, override>>

\* lines 1093-1098: the next level, after the current one
IdpNested ==
  /\ Running("idp", "await")
  /\ Top.awaiting = <<>>
  /\ Top.nested # <<>>
  /\ LET n == Head(Top.nested)
     IN stack' = Rest \o (<<[Top EXCEPT !.nested = Tail(@)]>> \o
                          (IF n.deps # EmptyMap THEN <<IdpFrame(n.deps, n.name)>> ELSE <<>>))
  /\ UNCHANGED <<config, diskVars, taskVars, opVars, resolverVars, result, faults, netUsed, added,
                 override>>

IdpReturn ==
  /\ Running("idp", "await")
  /\ Top.awaiting = <<>>
  /\ Top.nested = <<>>
  /\ ReturnOk(Rest)
  /\ UNCHANGED <<config, diskVars, taskVars, opVars, resolverVars, faults, netUsed, added, override>>

(***************************************************************************)
(* The task spawned for one dependency (lines 930-1074).                   *)
(***************************************************************************)
\* a spawned task runs while the process does: the runtime is dropped when main returns
TaskAt(dep_name, pc) == stack # <<>> /\ dep_name \in Pkgs /\ tasks[dep_name].pc = pc

\* faulty variant: a permit is handed out whether or not one is available
acquire_unchecked(n) == [ok |-> TRUE, permits |-> n - 1]

\* Semaphore::acquire: a permit is taken when one is available
acquire(n) == [ok |-> n > 0, permits |-> n - 1]

\* the permit is dropped when the task's future ends
TaskEnd(dep_name, pc) ==
  /\ tasks' = [tasks EXCEPT ![dep_name].pc = pc]
  /\ permits' = permits + 1

\* faulty variant: the task drops its error and returns Ok
TaskErrSwallowed(dep_name, e) ==
  /\ tasks' = [tasks EXCEPT ![dep_name].pc = "ok", ![dep_name].error = e]
  /\ permits' = permits + 1

\* the task's future ends with Err(e)
TaskErr(dep_name, e) ==
  /\ tasks' = [tasks EXCEPT ![dep_name].pc = "err", ![dep_name].error = e]
  /\ permits' = permits + 1

\* line 931
TaskAcquire(dep_name) ==
  /\ TaskAt(dep_name, "wait")
  /\ acquire(permits).ok
  /\ permits' = acquire(permits).permits
  /\ tasks' = [tasks EXCEPT ![dep_name].pc = "fetch"]
  /\ UNCHANGED <<config, diskVars, file_mutex, opVars, resolverVars, stack, result, faults, netUsed,
                 added, override>>

\* lines 935-956: the version the task installs for a spec
task_select_version(resp, dep_version) ==
  LET resolved_version ==
        IF dep_version = "latest" THEN {i.version : i \in get_latest_version(resp)}
        ELSE IF is_exact_version(dep_version) THEN {dep_version}
        ELSE {i.version : i \in get_latest_version(resp)}
  IN UNION {IF get_version(resp, v) # {} THEN get_version(resp, v) ELSE get_latest_version(resp)
            : v \in resolved_version}

\* lines 950-956: the errors of a task that finds no version
TaskVersionNotFound(dep_version, dep_name) ==
  IF dep_version = "latest" \/ ~is_exact_version(dep_version)
  THEN "Could not resolve version for " \o dep_name
  ELSE "Package info not found for " \o dep_name

\* lines 934-956 for the dependency (dep_name, dep_version) and the response the task fetched
TaskSelect(dep_name, dep_version, registry_response) ==
  /\ LET package_info == task_select_version(registry_response, dep_version)
     IN selection' = [name |-> dep_name, version_spec |-> dep_version,
                      response |-> registry_response, package_info |-> package_info,
                      error |-> IF package_info = {}
                                THEN TaskVersionNotFound(dep_version, dep_name) ELSE ""]
  /\ UNCHANGED <<instVars, storeVars, semVars, lockfile, lockcall, merge, counted, single, pass>>

NextTaskSelect ==
  \E dep_version \in VersionSpecs, registry_response \in Responses :
    TaskSelect("a", dep_version, registry_response)

\* lines 934-956
TaskFetch(dep_name) ==
  /\ TaskAt(dep_name, "fetch")
  /\ \E package_info \in task_select_version(NpmRegistryResponse(reg, dep_name),
                                             tasks[dep_name].spec) :
       tasks' = [tasks EXCEPT ![dep_name].pc = "download", ![dep_name].info = package_info]
  /\ netUsed' = TRUE
  /\ UNCHANGED <<config, diskVars, file_mutex, permits, opVars, resolverVars, stack, result, faults,
                 added, override>>

\* line 934: get_package_info fails
TaskFetchFail(dep_name) ==
  /\ TaskAt(dep_name, "fetch")
  /\ faults > 0 /\ faults' = faults - 1
  /\ TaskErr(dep_name, FetchFailed)
  /\ netUsed' = TRUE
  /\ UNCHANGED <<config, diskVars, file_mutex, opVars, resolverVars, stack, result, added, override>>

\* lines 971-1003: the bytes pass the verification and are written under temp/
TaskDownload(dep_name, bytes) ==
  /\ TaskAt(dep_name, "download")
  /\ faults >= FaultOf(bytes) /\ faults' = faults - FaultOf(bytes)
  /\ verify_package_integrity(bytes, dep_name, tasks[dep_name].info.shasum)
  /\ temp' = [temp EXCEPT ![dep_name] = bytes]
  /\ tasks' = [tasks EXCEPT ![dep_name].pc = "extract"]
  /\ netUsed' = TRUE
  /\ UNCHANGED <<config, node_modules, cache, lock_file, package_json, file_mutex, permits, opVars,
                 resolverVars, stack, result, added, override>>

\* lines 976-981: the request fails
TaskDownloadHttpFail(dep_name) ==
  /\ TaskAt(dep_name, "download")
  /\ faults > 0 /\ faults' = faults - 1
  /\ TaskErr(dep_name, DownloadFailed)
  /\ netUsed' = TRUE
  /\ UNCHANGED <<config, diskVars, file_mutex, opVars, resolverVars, stack, result, added, override>>

\* lines 986-991: the digest differs; the task fails without asking
TaskDownloadCorrupt(dep_name, bytes) ==
  /\ TaskAt(dep_name, "download")
  /\ faults >= FaultOf(bytes) /\ faults' = faults - FaultOf(bytes)
  /\ ~verify_package_integrity(bytes, dep_name, tasks[dep_name].info.shasum)
  /\ TaskErr(dep_name, IntegrityFailed(tasks[dep_name].info.name))
  /\ netUsed' = TRUE
  /\ UNCHANGED <<config, diskVars, file_mutex, opVars, resolverVars, stack, result, added, override>>

\* lines 1006-1040: create_dir_all, tar, clean the temp directory
TaskExtract(dep_name) ==
  /\ TaskAt(dep_name, "extract")
  /\ temp[dep_name] # "none"
  /\ node_modules' = [node_modules EXCEPT ![dep_name] = temp[dep_name]]
  /\ temp' = [temp EXCEPT ![dep_name] = "none"]
  /\ tasks' = [tasks EXCEPT ![dep_name].pc = "lock"]
  /\ UNCHANGED <<config, cache, lock_file, package_json, file_mutex, permits, opVars, resolverVars,
                 stack, result, faults, netUsed, added, override>>

\* lines 1025-1032: tar fails after create_dir_all
TaskExtractFail(dep_name) ==
  /\ TaskAt(dep_name, "extract")
  /\ faults > 0 /\ faults' = faults - 1
  /\ node_modules' = [node_modules EXCEPT ![dep_name] = "empty"]
  /\ TaskErr(dep_name, ExtractFailedFor(tasks[dep_name].info.name))
  /\ UNCHANGED <<config, cache, temp, lock_file, package_json, file_mutex, opVars, resolverVars,
                 stack, result, netUsed, added, override>>

\* lines 1044-1055: the mutex is taken, the file is read as JSON
TaskLock(dep_name) ==
  /\ TaskAt(dep_name, "lock")
  /\ file_mutex = "free"
  /\ file_mutex' = dep_name
  /\ tasks' = [tasks EXCEPT ![dep_name].pc = "write",
                            ![dep_name].loaded = task_read_lock(lock_file, use_toml_lock)]
  /\ UNCHANGED <<config, diskVars, permits, opVars, resolverVars, stack, result, faults, netUsed,
                 added, override>>

\* lines 1057-1073: add_package, write as JSON, release the mutex, return Ok
TaskWrite(dep_name) ==
  /\ TaskAt(dep_name, "write")
  /\ file_mutex = dep_name
  /\ LET t == tasks[dep_name]
     IN /\ lock_file' = task_write_lock(lock_file,
                                        add_package(t.loaded, t.info.name, t.info.version,
                                                    t.info.tarball, t.info.shasum,
                                                    t.info.dependencies, t.parent),
                                        use_toml_lock)
        /\ added' = added \cup {<<t.info.name, t.parent>>}
  /\ file_mutex' = "free"
  /\ TaskEnd(dep_name, "ok")
  /\ UNCHANGED <<config, node_modules, cache, temp, package_json, opVars, resolverVars, stack,
                 result, faults, netUsed, override>>

(***************************************************************************)
(* install_dependencies (lines 1130-1210).                                 *)
(***************************************************************************)
install_dependencies ==
  /\ StartOp("install_dependencies", {}, FALSE)
  /\ LET dependencies == package_json.dependencies
         dev_dependencies == package_json.dev_dependencies
         has_deps == dependencies # EmptyMap \/ dev_dependencies # EmptyMap
         total_packages == Cardinality({d \in DOMAIN dependencies : ~DirExists(d)})
                           + Cardinality({d \in DOMAIN dev_dependencies : ~DirExists(d)})
     IN IF ~package_json.exists \/ ~has_deps \/ total_packages = 0
        THEN ReturnOk(<<>>)
        ELSE /\ stack' = <<[fn |-> "idep", pc |-> "dev", dev_dependencies |-> dev_dependencies],
                           IdpFrame(dependencies, "root")>>
             /\ result' = "none"
  /\ UNCHANGED <<config, diskVars, faults, override>>

\* lines 1194-1198
IdepDev ==
  /\ Running("idep", "dev")
  /\ stack' = Rest \o <<IdpFrame(Top.dev_dependencies, "root")>>
  /\ UNCHANGED <<config, diskVars, taskVars, opVars, resolverVars, result, faults, netUsed, added,
                 override>>

(***************************************************************************)
(* uninstall_package (lines 1213-1296).                                    *)
(***************************************************************************)
get_package_dependencies_from_lock(lf, package_name) ==
  IF package_name \in DOMAIN lf /\ lf[package_name].dependencies.some
  THEN DOMAIN lf[package_name].dependencies.map ELSE {}

remove_from_lock_file(files, name, required_by, toml) ==
  save_lock_file(files, remove_package(load_lock_file(files, toml), name, required_by), toml)

check_can_remove_package(files, name, required_by, toml) ==
  can_remove_package(load_lock_file(files, toml), name, required_by)

RECURSIVE remove_dependencies(_, _, _, _, _, _)
\* lines 1262-1278: the loop over the dependencies the lock entry declared
remove_dependencies(order, i, nm, files, package_name, toml) ==
  IF i > Len(order) THEN [node_modules |-> nm, lock_file |-> files]
  ELSE IF check_can_remove_package(files, order[i], package_name, toml)[1]
       THEN remove_dependencies(order, i + 1, [nm EXCEPT ![order[i]] = "absent"],
                                remove_from_lock_file(files, order[i], package_name, toml),
                                package_name, toml)
       ELSE remove_dependencies(order, i + 1, nm, files, package_name, toml)

\* what uninstall_package decides at lines 1217-1236
uninstall_removes(nm, files, package_name, toml) ==
  /\ nm[package_name] # "absent"
  /\ check_can_remove_package(files, package_name, "root", toml)[1]

uninstall_package(package_name, toml) ==
  /\ StartOp("uninstall", {package_name}, FALSE)
  /\ IF uninstall_removes(node_modules, lock_file, package_name, toml)
     THEN \E order \in Perms(get_package_dependencies_from_lock(load_lock_file(lock_file, toml),
                                                                 package_name)) :
            LET r == remove_dependencies(order, 1,
                                         [node_modules EXCEPT ![package_name] = "absent"],
                                         remove_from_lock_file(lock_file, package_name, "root", toml),
                                         package_name, toml)
            IN /\ node_modules' = r.node_modules
               /\ lock_file' = r.lock_file
               /\ package_json' = remove_from_package_json(package_json, package_name)
               /\ override' = {p \in override : r.node_modules[p] # "absent"}
     ELSE UNCHANGED <<node_modules, lock_file, package_json, override>>
  /\ ReturnOk(<<>>)
  /\ UNCHANGED <<config, cache, temp, faults>>

(***************************************************************************)
(* The environment between two commands.                                   *)
(***************************************************************************)
\* the operator adds a dependency to package.json by hand
EditManifest(name) ==
  /\ StartOp("edit", {name}, FALSE)
  /\ name \notin DOMAIN package_json.dependencies
  /\ package_json' = update_package_json(package_json, name, RangeSpec, FALSE)
  /\ UNCHANGED <<config, node_modules, cache, temp, lock_file, stack, result, faults, override>>

\* a cached tarball is damaged on disk
CorruptCache(name) ==
  /\ stack = <<>>
  /\ cache[name] = "good"
  /\ faults > 0 /\ faults' = faults - 1
  /\ cache' = [cache EXCEPT ![name] = "bad"]
  /\ UNCHANGED <<config, node_modules, temp, lock_file, package_json, taskVars, opVars,
                 resolverVars, stack, result, netUsed, added, override>>

(***************************************************************************)
(* resolve_multiple_packages: the root futures and the shared cache.       *)
(***************************************************************************)
\* the names one step of the registry's dependency maps away from the names of S, with S
DependenciesOf(S) ==
  S \cup UNION {DOMAIN RegistryDependencies(reg, name) : name \in S}

\* a package and everything it depends on, directly or not
Closure(name) ==
  DependenciesOf(DependenciesOf(DependenciesOf({name})))

\* faulty variant: the shared cache is replaced by the task's cache
extend_replacing(map, other) == other

\* HashMap::extend, on the names the cache has responses for
extend(map, other) == map \cup other

\* lines 294-338: the resolver holds the responses of `before`; std::mem::take moves them
\* into the shared cache, and one future per requested package is created
resolve_multiple_packages(before, packages) ==
  /\ merge.phase = "idle"
  /\ packages # {}
  /\ merge' = [phase |-> "running", before |-> before, resolved_cache |-> {}, shared |-> before,
               permits |-> ResolvePermits,
               futures |-> [name \in packages |->
                              [pc |-> "wait", temp |-> {}, fetched |-> {}, failed |-> FALSE]]]
  /\ UNCHANGED <<instVars, storeVars, semVars, selection, lockfile, lockcall, counted, single, pass>>

FutureAt(name, pc) ==
  merge.phase = "running" /\ name \in DOMAIN merge.futures /\ merge.futures[name].pc = pc

\* lines 317-324: the permit, a new resolver, the clone of the shared cache under the lock
FutureClone(name) ==
  /\ FutureAt(name, "wait")
  /\ acquire(merge.permits).ok
  /\ merge' = [merge EXCEPT !.permits = acquire(merge.permits).permits,
                            !.futures[name].pc = "resolve",
                            !.futures[name].temp = merge.shared]
  /\ UNCHANGED <<instVars, storeVars, semVars, selection, lockfile, lockcall, counted, single, pass>>

\* the names the worklist of the root `name` comes to
Visited(name, known) ==
  {name} \cup UNION {DOMAIN RegistryDependencies(reg, m) : m \in known \cap Closure(name)}

\* lines 97-100 in the future's resolver: a response that is not in its cache is fetched
FutureFetch(name, fetched) ==
  /\ FutureAt(name, "resolve")
  /\ ~merge.futures[name].failed
  /\ fetched \in Visited(name, merge.futures[name].temp) \ merge.futures[name].temp
  /\ merge' = [merge EXCEPT !.futures[name].temp = @ \cup {fetched},
                            !.futures[name].fetched = @ \cup {fetched}]
  /\ UNCHANGED <<instVars, storeVars, semVars, selection, lockfile, lockcall, counted, single, pass>>

\* line 98: get_package_info fails, resolve_package returns Err
FutureFetchFail(name) ==
  /\ FutureAt(name, "resolve")
  /\ ~merge.futures[name].failed
  /\ Visited(name, merge.futures[name].temp) \ merge.futures[name].temp # {}
  /\ merge' = [merge EXCEPT !.futures[name].failed = TRUE]
  /\ UNCHANGED <<instVars, storeVars, semVars, selection, lockfile, lockcall, counted, single, pass>>

\* lines 328-334: resolve_package has returned; the future's cache goes into the shared one
\* under the lock, and the permit is dropped
FutureExtend(name) ==
  /\ FutureAt(name, "resolve")
  /\ \/ merge.futures[name].failed
     \/ Visited(name, merge.futures[name].temp) \subseteq merge.futures[name].temp
  /\ merge' = [merge EXCEPT !.shared = extend(@, merge.futures[name].temp),
                            !.permits = @ + 1,
                            !.futures[name].pc = "done"]
  /\ UNCHANGED <<instVars, storeVars, semVars, selection, lockfile, lockcall, counted, single, pass>>

\* lines 345-397: every future has been collected; the shared cache is put back
MergeReturn ==
  /\ merge.phase = "running"
  /\ \A name \in DOMAIN merge.futures : merge.futures[name].pc = "done"
  /\ merge' = [merge EXCEPT !.phase = "returned", !.resolved_cache = merge.shared]
  /\ UNCHANGED <<instVars, storeVars, semVars, selection, lockfile, lockcall, counted, single, pass>>

NextMerge ==
  \/ \E before \in SUBSET Pkgs, packages \in SUBSET Pkgs :
       resolve_multiple_packages(before, packages)
  \/ \E name \in Pkgs :
       \/ FutureClone(name)
       \/ \E fetched \in Pkgs : FutureFetch(name, fetched)
       \/ FutureFetchFail(name)
       \/ FutureExtend(name)
  \/ MergeReturn

(***************************************************************************)
(* The content store (content_store.rs).  Two ContentStore instances, as   *)
(* two processes have them, over one store directory.                      *)
(***************************************************************************)
Stores == {"s1", "s2"}
PackageKeys == {"a@1.0.0", "b@1.0.0"}
\* tarball_data: two archives, and bytes that are no gzip archive
Tarballs == {"t1", "t2", "junk"}
\* number of store operations in one behaviour
MaxStoreOps == 4

calculate_content_hash(tarball_data) == "sha1:" \o tarball_data

\* analyze_package_content returns Ok
IsArchive(tarball_data) == tarball_data # "junk"

InitContentStore ==
  /\ index = [s \in Stores |-> {}]
  /\ package_index = [s \in Stores |-> EmptyMap]
  /\ content_files = {}
  /\ index_file = {}
  /\ packages_file = EmptyMap
  /\ storeOps = 0
  /\ storeOp = [kind |-> "none", store |-> "", active |-> {}, tarball_data |-> "",
                package_key |-> "", ret |-> "none"]
  /\ link_dirs = [target |-> FALSE, temp_dir |-> FALSE]

StoreOp(kind, s, active, tarball_data, package_key, ret) ==
  /\ storeOps < MaxStoreOps
  /\ storeOps' = storeOps + 1
  /\ storeOp' = [kind |-> kind, store |-> s, active |-> active, tarball_data |-> tarball_data,
                 package_key |-> package_key, ret |-> ret]

\* load_index: the entries of the files are inserted into the maps
load_index(idx, pidx, ifile, pfile) ==
  [index |-> idx \cup ifile,
   package_index |-> [k \in DOMAIN pidx \cup DOMAIN pfile |->
                        IF k \in DOMAIN pfile THEN pfile[k] ELSE pidx[k]]]

initialize(s) ==
  /\ StoreOp("initialize", s, {}, "", "", "Ok")
  /\ LET r == load_index(index[s], package_index[s], index_file, packages_file)
     IN /\ index' = [index EXCEPT ![s] = r.index]
        /\ package_index' = [package_index EXCEPT ![s] = r.package_index]
  /\ UNCHANGED <<content_files, index_file, packages_file, link_dirs, instVars, semVars, libVars>>

store_package(s, package_key, tarball_data) ==
  /\ StoreOp("store", s, {}, tarball_data, package_key,
             IF calculate_content_hash(tarball_data) \in index[s] \/ IsArchive(tarball_data)
             THEN "Ok" ELSE "Err")
  /\ LET content_hash == calculate_content_hash(tarball_data)
     IN IF content_hash \in index[s]
        THEN UNCHANGED <<index, package_index, content_files, index_file, packages_file>>
        ELSE /\ content_files' = content_files \cup {content_hash}
             /\ IF ~IsArchive(tarball_data)
                THEN UNCHANGED <<index, package_index, index_file, packages_file>>
                ELSE /\ index' = [index EXCEPT ![s] = @ \cup {content_hash}]
                     /\ package_index' =
                          [package_index EXCEPT ![s] = MapPut(@, package_key, content_hash)]
                     /\ index_file' = index'[s]
                     /\ packages_file' = package_index'[s]
  /\ UNCHANGED <<link_dirs, instVars, semVars, libVars>>

\* the maps and the content files cleanup_unused leaves
cleanup(idx, pidx, files, active_packages) ==
  LET to_remove == {k \in DOMAIN pidx : k \notin active_packages}
      kept == [k \in DOMAIN pidx \ to_remove |-> pidx[k]]
      content_refs == Range(kept)
      orphaned == {h \in idx : h \notin content_refs}
  IN [package_index |-> kept,
      index |-> {h \in idx : h \in content_refs},
      content_files |-> (files \ {pidx[k] : k \in to_remove}) \ orphaned]

cleanup_unused(s, active_packages) ==
  /\ StoreOp("cleanup", s, active_packages, "", "", "Ok")
  /\ LET r == cleanup(index[s], package_index[s], content_files, active_packages)
     IN /\ index' = [index EXCEPT ![s] = r.index]
        /\ package_index' = [package_index EXCEPT ![s] = r.package_index]
        /\ content_files' = r.content_files
        /\ index_file' = r.index
        /\ packages_file' = r.package_index
  /\ UNCHANGED <<link_dirs, instVars, semVars, libVars>>

\* what can go wrong in extract_package_from_store: the decompression or the unpacking in
\* the blocking task, or the rename into the target
LinkFaults == {"none", "unpack", "rename"}

\* link_package finds the record of the package and the content file it points to
link_finds(s, package_key) ==
  /\ package_key \in DOMAIN package_index[s]
  /\ package_index[s][package_key] \in content_files

\* link_package with extract_package_from_store: the directory <target>.temp is created,
\* the archive is unpacked into it, its package/ directory is renamed to the target, and
\* the temp directory is removed; every failure returns with `?`
link_package(s, package_key, fault) ==
  /\ ~link_finds(s, package_key) => fault = "none"
  /\ StoreOp("link", s, {}, "", package_key,
             IF ~link_finds(s, package_key) THEN "Ok(false)"
             ELSE IF fault = "none" THEN "Ok(true)" ELSE "Err")
  /\ link_dirs' = IF ~link_finds(s, package_key) THEN link_dirs
                  ELSE IF fault = "none" THEN [target |-> TRUE, temp_dir |-> FALSE]
                  ELSE [link_dirs EXCEPT !.temp_dir = TRUE]
  /\ UNCHANGED <<index, package_index, content_files, index_file, packages_file,
                 instVars, semVars, libVars>>

\* ContentAddress.size: tarball_data.len() of the bytes the hash was computed from
content_size(content_hash) == Len(content_hash) - Len("sha1:")

RECURSIVE total_size(_, _)
total_size(hashes, usage) ==
  IF hashes = {} THEN 0
  ELSE LET hash == CHOOSE h \in hashes : TRUE
       IN content_size(hash) * usage[hash] + total_size(hashes \ {hash}, usage)

calculate_space_saved(idx, pidx) ==
  LET content_usage == [hash \in Range(pidx) |->
                          Cardinality({k \in DOMAIN pidx : pidx[k] = hash})]
      total_if_duplicated == total_size(Range(pidx) \cap idx, content_usage)
      actual_size == total_size(idx, [hash \in idx |-> 1])
  IN IF total_if_duplicated > actual_size THEN total_if_duplicated - actual_size ELSE 0

get_store_stats(idx, pidx) ==
  [total_packages |-> Cardinality(DOMAIN pidx),
   unique_content_count |-> Cardinality(idx),
   space_saved |-> calculate_space_saved(idx, pidx)]

\* `clay store stats`: a new ContentStore, initialize, get_store_stats
store_stats ==
  LET r == load_index({}, EmptyMap, index_file, packages_file)
  IN get_store_stats(r.index, r.package_index)

NextStore ==
  \/ \E s \in Stores : initialize(s)
  \/ \E s \in Stores, package_key \in PackageKeys, tarball_data \in Tarballs :
       store_package(s, package_key, tarball_data)
  \/ \E s \in Stores, active_packages \in SUBSET PackageKeys : cleanup_unused(s, active_packages)
  \/ \E s \in Stores, package_key \in PackageKeys, fault \in LinkFaults :
       link_package(s, package_key, fault)

(***************************************************************************)
(* The two semaphores under more tasks than permits: the tasks one pass of *)
(* install_dependencies_parallel spawns, and the futures of                *)
(* resolve_multiple_packages, counted by phase.                            *)
(***************************************************************************)
NumDepTasks == 10
NumRootFutures == 14

Phases(n) == [waiting |-> n, holding |-> 0, ended |-> 0]

InitSemaphores ==
  /\ dep_tasks = Phases(NumDepTasks)
  /\ dep_permits = DownloadPermits
  /\ root_futures = Phases(NumRootFutures)
  /\ root_permits = ResolvePermits

\* a waiting one takes a permit
Take(c) == [c EXCEPT !.waiting = @ - 1, !.holding = @ + 1]
\* the future ends and its permit is dropped
Drop(c) == [c EXCEPT !.holding = @ - 1, !.ended = @ + 1]

DepTaskAcquire ==
  /\ dep_tasks.waiting > 0
  /\ acquire(dep_permits).ok
  /\ dep_permits' = acquire(dep_permits).permits
  /\ dep_tasks' = Take(dep_tasks)
  /\ UNCHANGED <<root_futures, root_permits, instVars, storeVars, libVars>>

DepTaskEnd ==
  /\ dep_tasks.holding > 0
  /\ dep_permits' = dep_permits + 1
  /\ dep_tasks' = Drop(dep_tasks)
  /\ UNCHANGED <<root_futures, root_permits, instVars, storeVars, libVars>>

RootAcquire ==
  /\ root_futures.waiting > 0
  /\ acquire(root_permits).ok
  /\ root_permits' = acquire(root_permits).permits
  /\ root_futures' = Take(root_futures)
  /\ UNCHANGED <<dep_tasks, dep_permits, instVars, storeVars, libVars>>

RootEnd ==
  /\ root_futures.holding > 0
  /\ root_permits' = root_permits + 1
  /\ root_futures' = Drop(root_futures)
  /\ UNCHANGED <<dep_tasks, dep_permits, instVars, storeVars, libVars>>

NextSem == DepTaskAcquire \/ DepTaskEnd \/ RootAcquire \/ RootEnd

(***************************************************************************)
(* The installer: commands, the main task's steps, the spawned tasks.      *)
(***************************************************************************)
MainStep ==
  \/ \E name \in Pkgs : ResolveBegin(name)
  \/ ResolveSkip
  \/ ResolveVisit
  \/ ResolveFinish
  \/ ImpToInstall
  \/ ImpInstallNext
  \/ ImpReturn
  \/ IrpCheck
  \/ IrpDep
  \/ IrpSelf
  \/ IspSkip
  \/ IspCacheHit
  \/ \E bytes \in Bytes : IspDownload(bytes)
  \/ IspExtract
  \/ IspDeps
  \/ UlfLoad
  \/ UlfSave
  \/ \E dep_name \in Pkgs : IdpPresent(dep_name)
  \/ \E dep_name \in Pkgs : IdpSpawn(dep_name)
  \/ IdpLoopDone
  \/ IdpJoinOk
  \/ IdpNested
  \/ IdpReturn
  \/ IdepDev

TaskStep ==
  \/ \E dep_name \in Pkgs : TaskAcquire(dep_name)
  \/ \E dep_name \in Pkgs : TaskFetch(dep_name)
  \/ \E dep_name \in Pkgs, bytes \in Bytes : TaskDownload(dep_name, bytes)
  \/ \E dep_name \in Pkgs : TaskExtract(dep_name)
  \/ \E dep_name \in Pkgs : TaskLock(dep_name)
  \/ \E dep_name \in Pkgs : TaskWrite(dep_name)

Command ==
  \/ \E request \in InstallRequests : install_multiple_packages(request[1], request[2])
  \/ install_dependencies
  \/ \E package_name \in Pkgs : uninstall_package(package_name, TRUE)
  \/ \E name \in Pkgs : EditManifest(name)

\* the steps only a failure leads to
AfterFault ==
  \/ ImpNothingToInstall
  \/ IdpJoinErr

Fault ==
  \/ ResolveFetchFail
  \/ IspDownloadHttpFail
  \/ \E bytes \in Bytes : IspDownloadCorruptNo(bytes)
  \/ \E bytes \in Bytes : IspDownloadCorruptYes(bytes)
  \/ IspExtractFail
  \/ \E dep_name \in Pkgs : TaskFetchFail(dep_name)
  \/ \E dep_name \in Pkgs : TaskDownloadHttpFail(dep_name)
  \/ \E dep_name \in Pkgs, bytes \in Bytes : TaskDownloadCorrupt(dep_name, bytes)
  \/ \E dep_name \in Pkgs : TaskExtractFail(dep_name)
  \/ \E name \in Pkgs : CorruptCache(name)

(***************************************************************************)
(* count_total_packages (package_manager.rs), on the trees of the resolver. *)
(***************************************************************************)
\* registries for the counting: those of the installer, and one in which c depends on a
\* while a and b depend on each other
CountRegistries == RegistryNames \cup {"tail"}

\* the orders in which the dependencies maps of the packages of a registry can be iterated
ChildOrders(g) ==
  {order \in [Pkgs -> UNION {Perms(DOMAIN RegistryDependencies(g, name)) : name \in Pkgs}] :
     \A name \in Pkgs : order[name] \in Perms(DOMAIN RegistryDependencies(g, name))}

RECURSIVE Reaches(_, _, _)
\* the names the worklist of a resolution reaches from the names of S in at most n rounds
Reaches(g, S, n) ==
  IF n = 0 THEN S
  ELSE Reaches(g, S \cup UNION {DOMAIN RegistryDependencies(g, name) : name \in S}, n - 1)

\* lines 72-173: resolved_packages and dependency_graph when the worklist of the root is
\* empty: the root under "latest", every package it reaches under the declared range
resolve_package_iterative(g, root, order) ==
  LET below == Reaches(g, DOMAIN RegistryDependencies(g, root), Cardinality(Pkgs))
      entries == {<<root, "latest">>} \cup {<<name, RangeSpec>> : name \in below}
      keys == {Key(e[1], e[2]) : e \in entries}
      entry(package_key) == CHOOSE e \in entries : Key(e[1], e[2]) = package_key
      package_info(e) == CHOOSE info \in select_version(NpmRegistryResponse(g, e[1]), e[2]) : TRUE
  IN [resolved_packages |->
        [package_key \in keys |->
           [name |-> entry(package_key)[1],
            version |-> package_info(entry(package_key)).version,
            info |-> package_info(entry(package_key)),
            dependencies |-> <<>>, is_dev |-> FALSE]],
      dependency_graph |->
        [package_key \in keys |->
           LET name == entry(package_key)[1]
               deps == RegistryDependencies(g, name)
           IN [i \in 1..Len(order[name]) |-> Key(order[name][i], deps[order[name][i]])]]]

\* lines 184-191: the tree the resolver returns for a root
resolve_package(g, root, order) ==
  LET r == resolve_package_iterative(g, root, order)
  IN build_dependency_tree(Key(root, "latest"), r.resolved_packages, r.dependency_graph).pkg

RECURSIVE count_recursive(_, _), count_dependencies(_, _, _)
\* lines 404-416, on acc = [visited, count]
count_recursive(pkg, acc) ==
  IF pkg.name \in acc.visited THEN acc
  ELSE count_dependencies(pkg.dependencies, 1,
                          [visited |-> acc.visited \cup {pkg.name}, count |-> acc.count + 1])

\* lines 413-415: for dep in &pkg.dependencies
count_dependencies(dependencies, i, acc) ==
  IF i > Len(dependencies) THEN acc
  ELSE count_dependencies(dependencies, i + 1, count_recursive(dependencies[i], acc))

\* lines 400-423
count_total_packages(resolved) ==
  count_dependencies(resolved, 1, [visited |-> {}, count |-> 0]).count

\* the trees of the roots, in the order of roots
ResolvedRoots(g, roots, order) ==
  [i \in 1..Len(roots) |-> resolve_package(g, roots[i], order)]

\* lines 678-684: install_multiple_packages counts the trees it is about to install
CountTotal(g, roots, order) ==
  /\ counted' = [registry |-> g, roots |-> roots, order |-> order,
                 resolved |-> ResolvedRoots(g, roots, order),
                 total |-> count_total_packages(ResolvedRoots(g, roots, order))]
  /\ UNCHANGED <<instVars, storeVars, semVars, selection, lockfile, lockcall, merge, single, pass>>

\* the lists of distinct roots a command line can name
RootLists == UNION {Perms(S) : S \in SUBSET Pkgs \ {{}}}

NextCount ==
  \E g \in CountRegistries, roots \in RootLists : \E order \in ChildOrders(g) :
    CountTotal(g, roots, order)

(***************************************************************************)
(* install_single_package on one node of a resolved tree, in a project     *)
(* with an empty cache, when the registry answers every request.           *)
(***************************************************************************)
\* the PackageInfo of the nodes of resolved trees: the packages of the registries, a
\* registry package named "circular", and the resolver's stub
NodeInfos ==
  {PackageInfo(g, name, TheVersion) : g \in RegistryNames, name \in Pkgs \cup {"circular"}}
    \cup {CircularStub.info}

\* npm_client.rs lines 48-116, the response being `bytes`; `answer` is the operator's reply
\* to "Do you want to continue anyway?"
download_package(package_info, bytes, answer) ==
  IF verify_package_integrity(bytes, package_info.name, package_info.shasum)
  THEN [ret |-> "Ok", saved |-> TRUE]
  ELSE IF package_info.name = "circular" THEN [ret |-> "Ok", saved |-> FALSE]
  ELSE IF answer THEN [ret |-> "Ok", saved |-> TRUE]
  ELSE [ret |-> "Package integrity verification failed", saved |-> FALSE]

\* lines 815-883: what the call does to the project, and what it returns
install_single_package(package_info, update_manifest, is_dev, package_dir_exists, bytes, answer) ==
  LET nothing == [downloaded |-> FALSE, extracted |-> FALSE, manifest |-> "",
                  lock_parent |-> "", dependencies |-> {}]
      tarball == download_package(package_info, bytes, answer)
  IN IF package_info.name = "circular" THEN [ret |-> "Ok"] @@ nothing
     ELSE IF package_dir_exists THEN [ret |-> "Ok"] @@ nothing
     ELSE IF tarball.ret # "Ok" THEN [ret |-> tarball.ret] @@ nothing
     ELSE IF ~tarball.saved THEN [ret |-> "Failed to download tarball"] @@ nothing
     ELSE [ret |-> "Ok", downloaded |-> TRUE, extracted |-> TRUE,
           manifest |-> IF ~update_manifest THEN ""
                        ELSE IF is_dev THEN "devDependencies" ELSE "dependencies",
           lock_parent |-> IF update_manifest THEN "root" ELSE package_info.name,
           dependencies |-> DOMAIN package_info.dependencies.map]

InstallSingle(package_info, update_manifest, is_dev, package_dir_exists, bytes, answer) ==
  /\ single' = [fn |-> "install_single_package", package_info |-> package_info,
                update_manifest |-> update_manifest, is_dev |-> is_dev,
                package_dir_exists |-> package_dir_exists, bytes |-> bytes,
                did |-> install_single_package(package_info, update_manifest, is_dev,
                                               package_dir_exists, bytes, answer)]
  /\ UNCHANGED <<instVars, storeVars, semVars, selection, lockfile, lockcall, merge, counted, pass>>

NextSingle ==
  \E package_info \in NodeInfos, update_manifest \in BOOLEAN, is_dev \in BOOLEAN,
     package_dir_exists \in BOOLEAN, bytes \in Bytes, answer \in BOOLEAN :
    InstallSingle(package_info, update_manifest, is_dev, package_dir_exists, bytes, answer)

(***************************************************************************)
(* install_dependencies_parallel (lines 901-1101) with more dependencies   *)
(* than permits, when every network and disk operation completes: the      *)
(* tasks of a call are counted by their position.                          *)
(***************************************************************************)
\* nesting of the calls, and how many tasks of a call return dependencies of their own
MaxDepth == 2
MaxNested == 2

PassOthers == <<instVars, storeVars, semVars, selection, lockfile, lockcall, merge, counted, single>>

\* the frame of a call with n dependencies
PassFrame(n, frames, available) ==
  [NoPass EXCEPT !.pc = "loop", !.todo = n, !.frames = frames, !.permits = available]

\* faulty variant: the permit of an ended task is never returned
release_leaked(n) == n

\* the SemaphorePermit is dropped
release(n) == n + 1

\* install_single_package calls install_dependencies_parallel (lines 891-895)
PassCall(n) ==
  /\ pass.pc = "none"
  /\ pass' = PassFrame(n, <<>>, pass.permits)
  /\ UNCHANGED PassOthers

\* lines 910-917: the dependency has a directory; update_lock_file loads the lock file
\* under the file mutex (lines 1402-1418) ...
PassPresentLoad ==
  /\ pass.pc = "loop" /\ pass.todo > 0
  /\ pass.file_mutex = "free"
  /\ pass' = [pass EXCEPT !.pc = "save", !.todo = @ - 1]
  /\ UNCHANGED PassOthers

\* ... and saves it under the file mutex (lines 1422-1432)
PassPresentSave ==
  /\ pass.pc = "save"
  /\ pass.file_mutex = "free"
  /\ pass' = [pass EXCEPT !.pc = "loop"]
  /\ UNCHANGED PassOthers

\* lines 919-1076: tokio::spawn
PassSpawn ==
  /\ pass.pc = "loop" /\ pass.todo > 0
  /\ pass' = [pass EXCEPT !.todo = @ - 1, !.waiting = @ + 1, !.spawned = @ + 1]
  /\ UNCHANGED PassOthers

PassLoopDone ==
  /\ pass.pc = "loop" /\ pass.todo = 0
  /\ pass' = [pass EXCEPT !.pc = "await"]
  /\ UNCHANGED PassOthers

\* lines 1079-1090: every task has been awaited; k of them returned dependencies
PassJoin(k) ==
  /\ pass.pc = "await"
  /\ pass.ended = pass.spawned
  /\ k <= pass.spawned
  /\ Len(pass.frames) = MaxDepth - 1 => k = 0
  /\ pass' = [pass EXCEPT !.pc = "nested", !.nested = k]
  /\ UNCHANGED PassOthers

\* lines 1093-1098: the call for the dependencies of the next task, n of them
PassNested(n) ==
  /\ pass.pc = "nested" /\ pass.nested > 0
  /\ pass' = PassFrame(n, Append(pass.frames, pass.nested - 1), pass.permits)
  /\ UNCHANGED PassOthers

\* line 1100: Ok(()) to the caller
PassReturn ==
  /\ pass.pc = "nested" /\ pass.nested = 0
  /\ pass' = IF pass.frames = <<>> THEN [pass EXCEPT !.pc = "returned"]
             ELSE [pass EXCEPT !.nested = pass.frames[Len(pass.frames)],
                               !.frames = SubSeq(pass.frames, 1, Len(pass.frames) - 1)]
  /\ UNCHANGED PassOthers

\* line 931: a waiting task takes a permit
PassTaskAcquire ==
  /\ pass.waiting > 0
  /\ acquire(pass.permits).ok
  /\ pass' = [pass EXCEPT !.waiting = @ - 1, !.holding = @ + 1,
                          !.permits = acquire(pass.permits).permits]
  /\ UNCHANGED PassOthers

\* lines 934-1044: the task has fetched, downloaded and extracted, and takes the file mutex
PassTaskLock ==
  /\ pass.holding > 0
  /\ pass.file_mutex = "free"
  /\ pass' = [pass EXCEPT !.holding = @ - 1, !.writing = @ + 1, !.file_mutex = "task"]
  /\ UNCHANGED PassOthers

\* lines 1045-1074: the lock file is written, the mutex guard and the permit are dropped
PassTaskWrite ==
  /\ pass.writing > 0
  /\ pass' = [pass EXCEPT !.writing = @ - 1, !.ended = @ + 1, !.file_mutex = "free",
                          !.permits = release(pass.permits)]
  /\ UNCHANGED PassOthers

PassMain ==
  \/ PassCall(NumDepTasks)
  \/ PassPresentLoad
  \/ PassPresentSave
  \/ PassSpawn
  \/ PassLoopDone
  \/ \E k \in 0..MaxNested : PassJoin(k)
  \/ \E n \in {1, NumDepTasks} : PassNested(n)
  \/ PassReturn

PassTasks == PassTaskAcquire \/ PassTaskLock \/ PassTaskWrite

NextPass == PassMain \/ PassTasks

Next == Command \/ MainStep \/ TaskStep \/ Fault \/ AfterFault

Init == InitInstaller /\ InitContentStore /\ InitSemaphores /\ InitLibrary

Spec == Init /\ [][Next]_vars

\* one installer configuration, for the specifications of the other components
IdleInstaller == InstallerStarts(TRUE, "chain", {})

\* the installer when every network and disk operation completes
NextLive == Command \/ MainStep \/ TaskStep

\* the runtime keeps polling the main task and the spawned tasks
InitLive ==
  /\ \E g \in RegistryNames : InstallerStarts(TRUE, g, {"c"})
  /\ InitContentStore /\ InitSemaphores /\ InitLibrary

SpecLive == InitLive /\ [][NextLive]_vars /\ WF_vars(MainStep \/ TaskStep)

InitComponents == IdleInstaller /\ InitContentStore /\ InitSemaphores /\ InitLibrary

SpecStore == InitComponents /\ [][NextStore]_vars

SpecSem == InitComponents /\ [][NextSem]_vars

SpecSelect == InitComponents /\ [][NextSelect]_vars

SpecLock == InitComponents /\ [][NextLock]_vars

SpecMerge == InitComponents /\ [][NextMerge]_vars

SpecTaskSelect == InitComponents /\ [][NextTaskSelect]_vars

SpecCount == InitComponents /\ [][NextCount]_vars

SpecSingle == InitComponents /\ [][NextSingle]_vars

\* the runtime keeps polling the main task and the spawned tasks
SpecPass == InitComponents /\ [][NextPass]_vars /\ WF_vars(PassMain) /\ WF_vars(PassTasks)

(***************************************************************************)
(* Properties of the installer.                                            *)
(***************************************************************************)
\* no command is running, and every command so far returned Ok
AllSucceeded == stack = <<>> /\ result = "ok" /\ opInfo.prior_ok

Populated(name) == node_modules[name] \in Bytes

\* every entry has a requester, and every requester is "root" or has an entry
LockEntriesConsistent(lf) ==
  \A name \in DOMAIN lf :
    /\ lf[name].required_by # <<>>
    /\ \A r \in Range(lf[name].required_by) : r = "root" \/ r \in DOMAIN lf

\* C1: after install and uninstall commands that each returned Ok, every lock entry has a
\* non-empty required_by whose members are "root" or names of packages with a lock entry.
C1_RequiredByClosed ==
  AllSucceeded => \A path \in LockPaths : LockEntriesConsistent(lock_file[path].packages)

\* C2: a tarball is extracted into node_modules only if its SHA-1 is the declared
\* dist.shasum, unless the operator answered yes to the override prompt for that package.
C2_ExtractedIsVerified ==
  \A name \in Pkgs :
    Populated(name) =>
      \/ Sha1(node_modules[name], name) = PackageInfo(reg, name, TheVersion).shasum
      \/ name \in override

\* C2 witness: a package extracted by a spawned task and one extracted by the main task
\* from a tarball that went through the cache, after a fault was injected.
C2_Witness ==
  /\ faults < MaxFaults
  /\ \E name \in Pkgs :
       /\ tasks[name].pc = "ok" /\ node_modules[name] = "good"
       /\ \E other \in Pkgs \ {name} : node_modules[other] = "good" /\ cache[other] = "good"

\* the lock as the running PackageManager reads it
CurrentLock == load_lock_file(lock_file, use_toml_lock)

HasPair(lf, pair) == pair[1] \in DOMAIN lf /\ pair[2] \in Range(lf[pair[1]].required_by)

\* C3: lock-file updates are linearized: once an install has returned and its tasks have
\* finished, the lock file holds every (package, requester) pair a completed update added.
\* Stated for the JSON lock, where the main task and the spawned tasks use one encoding.
C3_NoLostUpdate ==
  (/\ ~use_toml_lock
   /\ stack = <<>> /\ result = "ok"
   /\ opInfo.kind \in {"install", "install_dependencies"}
   /\ \A name \in Pkgs : tasks[name].pc \in {"none", "ok"})
  => \A pair \in added : HasPair(CurrentLock, pair)

\* C4: an install_multiple_packages whose requested roots all have a directory makes no
\* registry request, starts no resolution, changes nothing under node_modules and leaves
\* the lock file as it was; it returns Ok at once.
C4_SecondInstallIsNoOp ==
  [][(/\ ops' = ops + 1
      /\ opInfo'.kind = "install"
      /\ \A name \in opInfo'.roots : DirExists(name))
     => (/\ stack' = <<>> /\ result' = "ok"
         /\ ~netUsed' /\ resolved_cache' = {} /\ work_stack' = <<>>
         /\ node_modules' = node_modules
         /\ lock_file' = lock_file)]_vars

\* C4 witness: the second command was an install of roots that are all present; it is
\* over, nothing was requested from the registry and the resolver was never started.
C4_Witness ==
  /\ ops = 2 /\ opInfo.kind = "install" /\ opInfo.prior_ok
  /\ stack = <<>> /\ result = "ok"
  /\ ~netUsed /\ resolved_cache = {}
  /\ \A name \in opInfo.roots : Populated(name)
  /\ \E name \in opInfo.roots : name \in DOMAIN CurrentLock

\* C5: dependencies are materialized before their parent: in a registry without cycles,
\* whenever node_modules/<parent> becomes populated, the directories of all the
\* dependencies the registry declares for it are populated.
C5_DependenciesFirst ==
  [][\A parent \in Pkgs :
       (reg # "cycle" /\ ~Populated(parent) /\ node_modules'[parent] \in Bytes)
       => \A dep \in DOMAIN RegistryDependencies(reg, parent) : node_modules'[dep] \in Bytes]_vars

\* the lock entry of a package lists a requester other than "root"
OtherRequester(lf, name) ==
  name \in DOMAIN lf /\ \E r \in Range(lf[name].required_by) : r # "root"

\* C6: uninstall_package(P) on a package with a directory removes P (directory, manifest
\* dependency, lock entry) if and only if P's lock entry lists no requester other than
\* "root"; otherwise P's directory, the manifest and the whole lock file stay as they were.
C6_UninstallIffOnlyRoot ==
  [][\A P \in Pkgs :
       (/\ ops' = ops + 1
        /\ opInfo'.kind = "uninstall" /\ opInfo'.roots = {P}
        /\ DirExists(P))
       => LET others == OtherRequester(load_lock_file(lock_file, TRUE), P)
          IN /\ (node_modules'[P] = "absent") <=> ~others
             /\ others => /\ node_modules' = node_modules
                          /\ package_json' = package_json
                          /\ lock_file' = lock_file
             /\ ~others => /\ P \notin DOMAIN load_lock_file(lock_file', TRUE)
                           /\ P \notin DOMAIN package_json'.dependencies]_vars

\* C6 witness: an uninstall was refused for a package whose lock entry lists another
\* requester, after an uninstall-able state was built by an install.
C6_Witness ==
  /\ opInfo.kind = "uninstall" /\ stack = <<>> /\ result = "ok"
  /\ \E P \in opInfo.roots :
       /\ Populated(P)
       /\ OtherRequester(load_lock_file(lock_file, TRUE), P)
       /\ \E Q \in Pkgs \ {P} : P \in DOMAIN RegistryDependencies(reg, Q) /\ Populated(Q)

\* the tree of the two-package cycle: a with the one child b, whose one child is the stub
IsTwoNodesAndStub(tree) ==
  /\ tree.name = "a"
  /\ Len(tree.dependencies) = 1
  /\ tree.dependencies[1].name = "b"
  /\ tree.dependencies[1].dependencies = <<CircularStub>>

\* C11: in the registry where a depends on b and b depends on a, the tree resolved for the
\* root a has exactly two real nodes (a with child b) and one circular stub, which is b's
\* child; and the install extracts a package only into a directory that did not exist, so
\* a and b are extracted at most once each.
C11_CycleTree ==
  /\ [](reg = "loop" /\ Running("imp", "install")
        => \A i \in 1..Len(Top.resolved) :
             Top.resolved[i].name = "a" => IsTwoNodesAndStub(Top.resolved[i]))
  /\ [][\A name \in Pkgs :
          (reg = "loop" /\ node_modules'[name] # node_modules[name] /\ node_modules'[name] \in Bytes)
          => node_modules[name] = "absent"]_vars

\* the command, or the task of a dependency, failed on the digest of this package
IntegrityErrors(name) == {IntegrityAborted(name), IntegrityFailed(name)}

\* C12: when the SHA-1 of a downloaded tarball differs from the declared digest and the
\* operator gives no override, the step that detects it leaves the lock file and the
\* manifest as they were and node_modules/<pkg> absent; the command returns that error,
\* and node_modules/<pkg> does not exist after it.
C12_MismatchFailsCleanly ==
  /\ [][\A name \in Pkgs :
          (\/ (result' \in IntegrityErrors(name) /\ result' # result)
           \/ (tasks'[name].error \in IntegrityErrors(name) /\ tasks[name].error = ""))
          => /\ lock_file' = lock_file
             /\ package_json' = package_json
             /\ node_modules'[name] = "absent"]_vars
  /\ [](stack = <<>>
        => \A name \in Pkgs :
             /\ result \in IntegrityErrors(name) => node_modules[name] = "absent"
             /\ tasks[name].error \in IntegrityErrors(name) => IsErr(result))

\* C12 witness: an install of a root with a dependency already in place ended with the
\* integrity error of the root; the root has no directory, no lock entry, no manifest entry.
C12_Witness ==
  /\ stack = <<>> /\ opInfo.kind = "install"
  /\ \E name \in opInfo.roots :
       /\ result = IntegrityAborted(name)
       /\ node_modules[name] = "absent"
       /\ name \notin DOMAIN CurrentLock
       /\ name \notin DOMAIN package_json.dependencies
       /\ \E dep \in DOMAIN RegistryDependencies(reg, name) : Populated(dep)

\* C13: every directory node_modules/<name> that exists, and that the installer therefore
\* treats as an installed package, holds the extracted package with its manifest; this
\* holds also after an extraction that failed.
C13_DirectoryHasManifest ==
  \A name \in Pkgs : DirExists(name) => Populated(name)

\* C14: the file at the configured lock path is always in the configured encoding, and the
\* entry a finished update has just written, by the main task or by a spawned task, is
\* returned by a load of the lock file, under the TOML and under the JSON configuration.
C14_WriteThenLoad ==
  /\ [](lock_file[lock_file_path(use_toml_lock)].enc \in {"none", Encoding(use_toml_lock)})
  /\ [][\A pair \in added' \ added :
          HasPair(load_lock_file(lock_file', use_toml_lock), pair)]_vars

\* the packages of S and the lock entries all of whose requesters are in S
WithOrphans(lf, S) == S \cup {D \in DOMAIN lf : Range(lf[D].required_by) \subseteq S}

\* the packages left without a requester when P goes, directly or through one another
OrphanedBy(lf, P) == WithOrphans(lf, WithOrphans(lf, WithOrphans(lf, {P})))

\* C15: when uninstall_package(P) removes P, every package whose requesters were only P or
\* packages removed with it is removed from node_modules and from the lock file, and no
\* entry that stays names P in its required_by.
C15_UninstallCascade ==
  [][\A P \in Pkgs :
       (/\ ops' = ops + 1
        /\ opInfo'.kind = "uninstall" /\ opInfo'.roots = {P}
        /\ DirExists(P) /\ node_modules'[P] = "absent")
       => LET before == load_lock_file(lock_file, TRUE)
              after == load_lock_file(lock_file', TRUE)
          IN /\ \A D \in OrphanedBy(before, P) :
                  node_modules'[D] = "absent" /\ D \notin DOMAIN after
             /\ \A D \in DOMAIN after : P \notin Range(after[D].required_by)]_vars

\* C16: after uninstall_package(P) has removed P, P has no directory under node_modules,
\* no entry in the manifest, under dependencies or under devDependencies, and no entry in
\* the lock file.
C16_UninstallRemovesAll ==
  [][\A P \in Pkgs :
       (/\ ops' = ops + 1
        /\ opInfo'.kind = "uninstall" /\ opInfo'.roots = {P}
        /\ DirExists(P) /\ node_modules'[P] = "absent")
       => /\ P \notin DOMAIN package_json'.dependencies
          /\ P \notin DOMAIN package_json'.dev_dependencies
          /\ P \notin DOMAIN load_lock_file(lock_file', TRUE)]_vars

\* the packages the user asked the running command for
UserRequested ==
  IF opInfo.kind = "install_dependencies"
  THEN DOMAIN package_json.dependencies \cup DOMAIN package_json.dev_dependencies
  ELSE opInfo.roots

\* C17: the requester an install adds to the required_by of a package is "root" when the
\* package is one the user requested, and otherwise the name of a package that declares it
\* as a dependency.
C17_RequesterIsRootOrParent ==
  [][\A pair \in added' \ added :
       \/ pair[2] = "root" /\ pair[1] \in UserRequested
       \/ pair[2] \in Pkgs /\ pair[1] \in DOMAIN RegistryDependencies(reg, pair[2])]_vars

\* C18: when the first command in an empty project is an install that returns Ok, with no
\* failed request, download or extraction, every requested package R has its directory
\* with the extracted package, and a lock entry whose required_by contains "root" and whose
\* integrity is the digest the registry declares; also when R lies on a dependency cycle.
C18_RootInstalledAndLocked ==
  (/\ ops = 1 /\ opInfo.kind = "install"
   /\ stack = <<>> /\ result = "ok"
   /\ faults = MaxFaults)
  => \A R \in opInfo.roots :
       /\ Populated(R)
       /\ R \in DOMAIN CurrentLock
       /\ "root" \in Range(CurrentLock[R].required_by)
       /\ CurrentLock[R].integrity = PackageInfo(reg, R, TheVersion).shasum

\* the section of the manifest an install with this dev flag writes to
ManifestSection(pj, dev) == IF dev THEN pj.dev_dependencies ELSE pj.dependencies

\* C19: a running install changes the manifest only by adding a requested root, with the
\* installed version, under devDependencies when the dev flag is set and under dependencies
\* otherwise; and when the first command in an empty project is an install that returns Ok
\* with nothing failed, the manifest lists exactly the requested roots, in that section.
C19_ManifestListsRoots ==
  /\ [][(stack # <<>> /\ package_json' # package_json)
        => \E R \in opInfo.roots :
             package_json' = update_package_json(package_json, R, TheVersion, opInfo.dev)]_vars
  /\ []((/\ ops = 1 /\ opInfo.kind = "install"
         /\ stack = <<>> /\ result = "ok"
         /\ faults = MaxFaults)
        => /\ DOMAIN ManifestSection(package_json, opInfo.dev) = opInfo.roots
           /\ ManifestSection(package_json, ~opInfo.dev) = EmptyMap)

\* the resolution of a requested root of the running install has failed
ResolutionFailed ==
  stack # <<>> /\ stack[1].fn = "imp" /\ stack[1].failed_packages # {}

\* C20: once the resolution of a requested root has failed, the install installs no package
\* of the request, and it returns an error.
C20_ResolveFailureAborts ==
  [][ResolutionFailed
     => /\ node_modules' = node_modules
        /\ stack' = <<>> => IsErr(result')]_vars

\* the packages whose extraction has failed: create_dir_all has run, tar has not
ExtractionFailures ==
  {name \in Pkgs : node_modules[name] = "empty"}

\* C21: when the extraction of one package has failed during an install of several packages,
\* the install still installs, before it returns, every requested package that does not
\* depend on the failed one.
C21_ExtractFailureIsLocal ==
  [](/\ ops = 1 /\ opInfo.kind = "install"
     /\ stack = <<>> /\ result # "none"
     /\ ExtractionFailures # {}
     => \A R \in opInfo.roots :
          Closure(R) \cap ExtractionFailures = {} => node_modules[R] = "good")

\* C23: when an install has returned Ok and a requested package is in node_modules, the
\* content store reports the package and its content: at least one unique content object and
\* at least one package (and so, after the same package version was installed in a second
\* project, one content object and two packages).
C23_InstallIsStored ==
  [](/\ stack = <<>> /\ result = "ok" /\ opInfo.kind = "install"
     /\ \E R \in opInfo.roots : node_modules[R] = "good"
     => /\ store_stats.unique_content_count >= 1
        /\ store_stats.total_packages >= 1)

\* the step puts a tarball of `name` into the temp directory (a download, or a copy from the
\* cache), or starts the extraction into node_modules/<name>
TarballStep(name) ==
  \/ temp'[name] # temp[name] /\ temp'[name] # "none"
  \/ node_modules[name] = "absent" /\ node_modules'[name] # "absent"

\* C25: a tarball is downloaded or extracted only while a permit of the download semaphore
\* is held, in the sequential install of a resolved package as in the dependency tasks.
C25_TarballUnderPermit ==
  [][(\E name \in Pkgs : TarballStep(name)) => permits < DownloadPermits]_vars

\* the step extracts into node_modules/<name>
Extracts(name) ==
  node_modules'[name] # node_modules[name] /\ node_modules'[name] # "absent"

\* C26: an extraction into node_modules/<name> happens only when the directory does not
\* exist, and no step of an install changes a directory that exists: in one install at most
\* one task extracts each package, and no task writes the directory of another.
C26_OneExtractionPerName ==
  [][\A name \in Pkgs :
       /\ Extracts(name) => node_modules[name] = "absent"
       /\ (opInfo'.kind = "install" /\ node_modules[name] # "absent")
          => node_modules'[name] = node_modules[name]]_vars

\* a spawned task and the main task have each extracted a package in one install
C26_Witness ==
  /\ opInfo.kind = "install"
  /\ \E dep_name, name \in Pkgs :
       /\ dep_name # name
       /\ tasks[dep_name].pc = "lock" /\ node_modules[dep_name] = "good"
       /\ node_modules[name] = "good"

\* download_package_tarball is about to run for a package that will not be skipped
FetchesTarball ==
  Running("isp", "download") /\ ~IspSkips(Top.info)

\* the cache holds the published bytes of the package
CacheVerifies(info) ==
  cache[info.name] # "none" /\ Sha1(cache[info.name], info.name) = info.shasum

\* C27: download_package_tarball uses a cache entry that passes the verification as it is,
\* without a request to the registry; an entry that fails the verification is deleted and
\* the tarball is requested from the registry; after a download that succeeded the cache
\* holds the downloaded tarball, after one that failed it holds no entry.
C27_CacheThenRegistry ==
  [][(FetchesTarball /\ stack' # stack)
     => LET info == Top.info
            name == info.name
        IN IF CacheVerifies(info)
           THEN /\ stack' = Rest \o <<[Top EXCEPT !.pc = "extract"]>>
                /\ temp'[name] = cache[name]
                /\ cache' = cache /\ netUsed' = netUsed /\ faults' = faults
           ELSE /\ netUsed'
                /\ IF stack' = <<>> THEN cache'[name] = "none" /\ IsErr(result')
                   ELSE cache'[name] # "none" /\ cache'[name] = temp'[name]]_vars

\* the cache entry of c was damaged, install c has deleted it, downloaded c from the
\* registry and put the download into the cache
C27_Witness ==
  /\ reg = "chain" /\ ops = 1 /\ opInfo.kind = "install" /\ opInfo.roots = {"c"}
  /\ Running("isp", "extract")
  /\ faults = 0 /\ netUsed
  /\ temp["c"] = "good"
  /\ cache = [p \in Pkgs |-> "good"]

\* C31: a package installed by a task of the parallel pass has gone through the steps of
\* install_single_package, one of which puts the downloaded tarball into the cache: after an
\* install that returned Ok, the cache holds an entry for every package in node_modules,
\* whichever path installed it.
C31_TaskInstallsLikeMain ==
  [](/\ ops = 1 /\ opInfo.kind = "install"
     /\ stack = <<>> /\ result = "ok"
     => \A name \in Pkgs : node_modules[name] = "good" => cache[name] # "none")

(***************************************************************************)
(* Properties of the version selection (under SpecSelect).                 *)
(***************************************************************************)
\* the specs that carry a range operator, a wildcard, or less than three numbers
RangeSpecs == {"^1.0.0", "~1.0.0", ">=1.0.0", "<2.0.0", "=1.0.0", "*", "1.x", "1.0"}

AllDigits(s) == s # <<>> /\ \A i \in DOMAIN s : s[i] \in is_ascii_digit

\* D.D.D or D.D.D-pre
ExactForm(version) ==
  LET s == Spelling(version)
  IN \E i, j, k \in DOMAIN s :
       /\ i < j /\ j < k
       /\ AllDigits(SubSeq(s, 1, i - 1)) /\ s[i] = "."
       /\ AllDigits(SubSeq(s, i + 1, j - 1)) /\ s[j] = "."
       /\ AllDigits(SubSeq(s, j + 1, k))
       /\ (k = Len(s) \/ (k + 1 < Len(s) /\ s[k + 1] = "-"))

\* the selection found exactly the published version `version`, or, when the response has
\* no such version, failed with the version-not-found error
SelectedOrNotFound(version) ==
  IF version \in DOMAIN selection.response.versions
  THEN /\ selection.package_info = {selection.response.versions[version]}
       /\ selection.error = ""
  ELSE /\ selection.package_info = {}
       /\ selection.error = VersionNotFound(selection.version_spec, selection.name)

\* C22: for a worklist entry whose spec is "latest" or a range the resolver selects the
\* version the "latest" tag of the response names; for a spec of the form D.D.D[-pre] it
\* selects exactly that version; it fails with the version-not-found error when the response
\* does not hold the selected version.
C22_SelectsByForm ==
  selection # NoSelection =>
    LET version_spec == selection.version_spec
        dist_tags == selection.response.dist_tags
    IN /\ (version_spec = "latest" \/ version_spec \in RangeSpecs)
          => IF "latest" \in DOMAIN dist_tags THEN SelectedOrNotFound(dist_tags["latest"])
             ELSE /\ selection.package_info = {}
                  /\ selection.error = VersionNotFound(version_spec, selection.name)
       /\ ExactForm(version_spec) => SelectedOrNotFound(version_spec)

\* an exact version other than the latest one was asked for and selected
C22_Witness ==
  /\ selection.version_spec = "2.0.0"
  /\ "latest" \in DOMAIN selection.response.dist_tags
  /\ selection.response.dist_tags["latest"] = "1.0.0"
  /\ selection.package_info = {PackageInfo("chain", "a", "2.0.0")}

\* the step in which the tree of a root is built and collected
CollectsTree ==
  /\ Running("imp", "resolve")
  /\ stack' # <<>> /\ Len(stack') = Len(stack)
  /\ Len(stack'[Len(stack')].resolved) = Len(Top.resolved) + 1

\* tree is the tree of the key package_key below the keys of path: a real node with one
\* child for each dependency key, in the order of the dependency graph; the child is the
\* stub where the key is package_key or a key of path, and the tree of the key otherwise
RECURSIVE IsTreeOf(_, _, _)
IsTreeOf(tree, package_key, path) ==
  /\ package_key \in DOMAIN resolved_packages
  /\ package_key \in DOMAIN dependency_graph
  /\ tree.name = resolved_packages[package_key].name
  /\ tree.info = resolved_packages[package_key].info
  /\ LET dep_keys == dependency_graph[package_key]
     IN /\ Len(tree.dependencies) = Len(dep_keys)
        /\ \A i \in 1..Len(dep_keys) :
             IF dep_keys[i] \in path \cup {package_key}
             THEN tree.dependencies[i] = CircularStub
             ELSE /\ tree.dependencies[i] # CircularStub
                  /\ IsTreeOf(tree.dependencies[i], dep_keys[i], path \cup {package_key})

\* C35: in the tree the resolver returns for a root no key name@version_spec is twice on
\* a path from the root: a circular stub, without children, stands exactly where a
\* dependency key is already on the path, and every other dependency key is a real node.
C35_StubWhereKeyRepeats ==
  [][CollectsTree
     => LET resolved == stack'[Len(stack')].resolved
        IN IsTreeOf(resolved[Len(resolved)], Key(Top.root, "latest"), {})]_vars

\* the tree of a in the registry where a and b depend on each other has been collected:
\* a@latest, b@^1.0.0, a@^1.0.0, and the stub for b@^1.0.0
C35_Witness ==
  /\ reg = "loop"
  /\ stack # <<>> /\ Top.fn = "imp"
  /\ \E i \in 1..Len(Top.resolved) :
       LET tree == Top.resolved[i]
       IN /\ tree.name = "a" /\ Len(tree.dependencies) = 1
          /\ tree.dependencies[1].name = "b"
          /\ Len(tree.dependencies[1].dependencies) = 1
          /\ tree.dependencies[1].dependencies[1].name = "a"
          /\ tree.dependencies[1].dependencies[1].dependencies = <<CircularStub>>

(***************************************************************************)
(* Properties of the version selection of the tasks (under SpecTaskSelect).*)
(***************************************************************************)
\* C34: for a response and a version spec, a task of the parallel pass installs the version
\* the resolver selects, and fails where the resolver fails; an exact version that the
\* response does not hold is an error, not the latest version.
C34_TaskSelectsAsResolver ==
  selection # NoSelection =>
    /\ selection.package_info = select_version(selection.response, selection.version_spec)
    /\ selection.error # "" <=> select_version(selection.response, selection.version_spec) = {}

(***************************************************************************)
(* Properties of the merge of the resolver's cache (under SpecMerge).      *)
(***************************************************************************)
\* C32: when resolve_multiple_packages has returned, the resolver's cache holds every
\* response it held before the call and every response a root future has fetched, whatever
\* the order in which the futures cloned the shared cache and merged into it.
C32_MergeLosesNothing ==
  merge.phase = "returned" =>
    /\ merge.before \subseteq merge.resolved_cache
    /\ \A name \in DOMAIN merge.futures :
         merge.futures[name].fetched \subseteq merge.resolved_cache

\* two futures have fetched the same response, each having cloned the shared cache before
\* the other merged, and a future that failed had fetched a response before
C32_Witness ==
  /\ merge.phase = "returned"
  /\ \E n1, n2 \in DOMAIN merge.futures :
       /\ n1 # n2
       /\ merge.futures[n1].fetched \cap merge.futures[n2].fetched # {}
       /\ merge.futures[n1].failed /\ merge.futures[n1].fetched # {}

(***************************************************************************)
(* Properties of count_total_packages (under SpecCount).                   *)
(***************************************************************************)
RECURSIVE NamesOf(_)
\* the names of the nodes of a tree
NamesOf(pkg) ==
  {pkg.name} \cup UNION {NamesOf(pkg.dependencies[i]) : i \in 1..Len(pkg.dependencies)}

NamesOfAll(resolved) == UNION {NamesOf(resolved[i]) : i \in 1..Len(resolved)}

\* C39: count_total_packages returns the number of distinct nodes of the trees of the
\* roots (with or without the cycle stub), and the same number for every order of the
\* roots and every order of the children.
C39_CountsUniqueNodes ==
  counted # NoCount =>
    /\ counted.total \in {Cardinality(NamesOfAll(counted.resolved)),
                           Cardinality(NamesOfAll(counted.resolved) \ {CircularStub.name})}
    /\ \A roots \in Perms({counted.roots[i] : i \in 1..Len(counted.roots)}) :
         \A order \in ChildOrders(counted.registry) :
           count_total_packages(ResolvedRoots(counted.registry, roots, order)) = counted.total

(***************************************************************************)
(* Properties of install_single_package (under SpecSingle).                *)
(***************************************************************************)
\* C37: of the nodes whose directory does not exist and whose tarball arrives intact, the
\* installer skips the resolver's cycle stub and nothing else: every other node, whatever
\* its name, is downloaded, extracted and recorded in the lock file.
C37_SkipsExactlyStubs ==
  (single # NoSingle /\ ~single.package_dir_exists /\ single.bytes = "good") =>
    /\ single.did.ret = "Ok"
    /\ IF single.package_info = CircularStub.info
       THEN ~single.did.downloaded /\ ~single.did.extracted /\ single.did.lock_parent = ""
       ELSE single.did.downloaded /\ single.did.extracted /\ single.did.lock_parent # ""

(***************************************************************************)
(* Properties of LockFile (under SpecLock).                                *)
(***************************************************************************)
NoDuplicates(s) == \A i, j \in DOMAIN s : s[i] = s[j] => i = j

\* s with every occurrence of r taken out, the rest in its order
RECURSIVE Without(_, _)
Without(s, r) ==
  IF s = <<>> THEN <<>>
  ELSE IF Head(s) = r THEN Without(Tail(s), r)
  ELSE <<Head(s)>> \o Without(Tail(s), r)

\* the last call has left every entry but that of its package as it was
OthersUnchanged ==
  \A p \in (DOMAIN lockfile \cup DOMAIN lockcall.before) \ {lockcall.name} :
    /\ p \in DOMAIN lockfile /\ p \in DOMAIN lockcall.before
    /\ lockfile[p] = lockcall.before[p]

\* C28: add_package(name, .., r) creates the entry of name with required_by = [r] when there
\* is none; when there is one it leaves version, resolved, integrity and dependencies as
\* they are and makes required_by the old requesters and r, each once; other entries are
\* not changed, and the same call made again changes nothing.
C28_AddIsInsertOrUnion ==
  lockcall.fn = "add_package" =>
    LET c == lockcall
        new == lockfile[c.name]
    IN /\ c.name \in DOMAIN lockfile
       /\ OthersUnchanged
       /\ IF c.name \notin DOMAIN c.before
          THEN new = [version |-> c.version, resolved |-> c.resolved, integrity |-> c.integrity,
                      dependencies |-> c.dependencies, required_by |-> <<c.required_by>>]
          ELSE LET old == c.before[c.name]
               IN /\ new.version = old.version /\ new.resolved = old.resolved
                  /\ new.integrity = old.integrity /\ new.dependencies = old.dependencies
                  /\ Range(new.required_by) = Range(old.required_by) \cup {c.required_by}
                  /\ NoDuplicates(new.required_by)
       /\ add_package(lockfile, c.name, c.version, c.resolved, c.integrity, c.dependencies,
                      c.required_by) = lockfile

\* an entry with two requesters got a third one, in a call that named another version
C28_Witness ==
  /\ lockcall.fn = "add_package"
  /\ lockcall.name \in DOMAIN lockcall.before
  /\ lockcall.version # lockcall.before[lockcall.name].version
  /\ Len(lockcall.before[lockcall.name].required_by) = 2
  /\ Len(lockfile[lockcall.name].required_by) = 3

\* C29: remove_package(name, r) takes r out of the entry's required_by, deletes the entry
\* exactly when no requester is left, and returns true exactly when it deleted the entry;
\* it changes no other entry; and no entry of a lock file built by add_package and
\* remove_package has an empty required_by.
C29_RemoveDeletesWhenEmpty ==
  /\ \A p \in DOMAIN lockfile : lockfile[p].required_by # <<>>
  /\ lockcall.fn = "remove_package" =>
       LET c == lockcall
           deleted == c.name \in DOMAIN c.before /\ c.name \notin DOMAIN lockfile
       IN /\ OthersUnchanged
          /\ c.ret = deleted
          /\ c.name \in DOMAIN c.before =>
               LET old == c.before[c.name]
                   rest == Without(old.required_by, c.required_by)
               IN /\ deleted <=> rest = <<>>
                  /\ ~deleted => lockfile[c.name] = [old EXCEPT !.required_by = rest]
          /\ c.name \notin DOMAIN c.before => lockfile = c.before

\* the last requester of an entry was removed and the entry deleted, another entry stays
C29_Witness ==
  /\ lockcall.fn = "remove_package"
  /\ lockcall.ret = TRUE
  /\ lockcall.name \in DOMAIN lockcall.before
  /\ lockcall.name \notin DOMAIN lockfile
  /\ lockfile # LockFile_new

\* C30: can_remove_package(name, r) leaves the lock file as it is; for an entry that exists
\* its first component is true exactly when remove_package(name, r) would delete the entry,
\* and its second component is the entry's required_by without r, in the same order.
C30_CanRemovePredictsRemove ==
  lockcall.fn = "can_remove_package" =>
    LET c == lockcall
    IN /\ lockfile = c.before
       /\ c.name \in DOMAIN lockfile =>
            /\ c.ret[1] <=> c.name \notin DOMAIN remove_package(lockfile, c.name, c.required_by)
            /\ c.ret[1] <=> remove_package_result(lockfile, c.name, c.required_by)
            /\ c.ret[2] = Without(lockfile[c.name].required_by, c.required_by)

\* the requester asked about is the first of three: the entry would stay, with the two others
C30_Witness ==
  /\ lockcall.fn = "can_remove_package"
  /\ lockcall.name \in DOMAIN lockfile
  /\ Len(lockfile[lockcall.name].required_by) = 3
  /\ lockfile[lockcall.name].required_by[1] = lockcall.required_by
  /\ lockcall.ret = <<FALSE, Tail(lockfile[lockcall.name].required_by)>>

(***************************************************************************)
(* Properties of the content store (under SpecStore).                      *)
(***************************************************************************)
\* C7: cleanup_unused(active) keeps, for every active package key it has a record of, the
\* record, the content file the record points to and the content-index entry of that hash,
\* also when a package that is not active has the same content hash.
C7_CleanupKeepsActive ==
  [][(storeOps' = storeOps + 1 /\ storeOp'.kind = "cleanup")
     => LET s == storeOp'.store
        IN \A k \in storeOp'.active \cap DOMAIN package_index[s] :
             LET h == package_index[s][k]
             IN (h \in content_files /\ h \in index[s])
                => /\ k \in DOMAIN package_index'[s]
                   /\ package_index'[s][k] = h
                   /\ h \in content_files'
                   /\ h \in index'[s]]_vars

\* C8: after cleanup_unused(active) by the one store instance in use, no record is left
\* for a package outside active, and the content files on disk, the hashes of the content
\* index and the hashes the remaining records point to are the same set; this holds also
\* when an earlier store_package failed after it wrote its content file.
C8_CleanupLeavesStoreConsistent ==
  (/\ storeOp.kind = "cleanup"
   /\ \A o \in Stores \ {storeOp.store} : index[o] = {} /\ package_index[o] = EmptyMap)
  => LET s == storeOp.store
     IN /\ DOMAIN package_index[s] \subseteq storeOp.active
        /\ content_files = index[s]
        /\ index[s] = Range(package_index[s])

\* the step is a store_package of the instance s with bytes of the hash content_hash
StoresContent(s, content_hash) ==
  /\ storeOps' = storeOps + 1
  /\ storeOp'.kind = "store" /\ storeOp'.store = s
  /\ calculate_content_hash(storeOp'.tarball_data) = content_hash

\* C24: store_package of bytes whose hash is in the content index changes neither the content
\* index nor the content files; store_package of bytes with a new hash adds exactly one
\* entry to the content index and one content file.
C24_StoreIsIdempotent ==
  [][\A s \in Stores, tarball_data \in Tarballs :
       LET content_hash == calculate_content_hash(tarball_data)
       IN StoresContent(s, content_hash)
          => IF content_hash \in index[s]
             THEN index'[s] = index[s] /\ content_files' = content_files
             ELSE /\ index'[s] = index[s] \cup {content_hash}
                  /\ Cardinality(content_files') = Cardinality(content_files) + 1]_vars

\* C33: when link_package has returned, with true or with an error, the temporary directory
\* it extracted into does not exist.
C33_LinkRemovesTempDir ==
  storeOp.kind = "link" => ~link_dirs.temp_dir

\* C36: when store_package(name, version, bytes) has returned Ok, the package index has a
\* record for name@version whose hash is in the content index and whose content file
\* exists, so that link_package finds the package; also when the bytes were stored before
\* under another key.
C36_StoredIsLinkable ==
  (storeOp.kind = "store" /\ storeOp.ret = "Ok")
  => LET s == storeOp.store
         package_key == storeOp.package_key
     IN /\ package_key \in DOMAIN package_index[s]
        /\ package_index[s][package_key] \in index[s]
        /\ link_finds(s, package_key)

(***************************************************************************)
(* Properties of the semaphores (under SpecSem).                           *)
(***************************************************************************)
\* C9: at most 8 dependency tasks hold a download permit and at most 12 root resolutions
\* hold a resolution permit at any time; the permits held never exceed the permit count.
C9_PermitsBound ==
  /\ dep_tasks.holding <= DownloadPermits
  /\ root_futures.holding <= ResolvePermits
  /\ dep_permits >= 0 /\ dep_tasks.holding + dep_permits = DownloadPermits
  /\ root_permits >= 0 /\ root_futures.holding + root_permits = ResolvePermits

\* C9 witness: both semaphores are exhausted while a task and a resolution still wait.
C9_Witness ==
  /\ dep_tasks.holding = DownloadPermits /\ dep_tasks.waiting > 0
  /\ root_futures.holding = ResolvePermits /\ root_futures.waiting > 0

(***************************************************************************)
(* Termination (under SpecLive).                                           *)
(***************************************************************************)
\* C10: for every registry of the model, the one with a dependency cycle included, when
\* every network and disk operation completes, the resolution terminates and the command
\* returns.
C10_InstallerReturns == (stack # <<>>) ~> (stack = <<>>)

\* C10 witness: an install over the registry with the cycle a -> c -> a has resolved its
\* root and returned Ok with the packages of the cycle in place.
C10_Witness ==
  /\ reg = "cycle" /\ opInfo.kind = "install" /\ "a" \in opInfo.roots
  /\ stack = <<>> /\ result = "ok"
  /\ "a" \in resolved_cache /\ "c" \in resolved_cache
  /\ Populated("a") /\ Populated("c")

(***************************************************************************)
(* Termination of install_dependencies_parallel (under SpecPass).          *)
(***************************************************************************)
\* C38: when every network and disk operation completes, the tasks that wait for a permit
\* obtain one, the tasks that hold a permit obtain the file mutex, the mutex and the
\* permits are released, and install_dependencies_parallel returns, whatever the number of
\* dependencies and the nesting of the calls.
C38_TasksProceedAndPassReturns ==
  /\ (pass.waiting > 0) ~> (pass.waiting = 0)
  /\ (pass.holding > 0) ~> (pass.holding = 0)
  /\ (pass.file_mutex = "task") ~> (pass.file_mutex = "free")
  /\ (pass.permits < DownloadPermits) ~> (pass.permits = DownloadPermits)
  /\ (pass.pc # "none") ~> (pass.pc = "returned")

\* C38 witness: in a nested call every permit is taken, tasks wait for a permit, and a
\* task writes the lock file while others wait for the mutex.
C38_Witness ==
  /\ pass.frames # <<>>
  /\ pass.permits = 0 /\ pass.waiting > 0
  /\ pass.file_mutex = "task" /\ pass.holding > 0

====
